---------------------------- MODULE Spec2Model ----------------------------
(***************************************************************************)
(* A model of the scan endpoints of the HTTP Observatory API:              *)
(*   POST /scanFullDetails       (src/src/api/v2/scan/full-details.js)     *)
(*   POST /scanBatchFullDetails  (src/unnamed/part_001, second half)       *)
(* Strings are sequences of one-character strings, so that trim,           *)
(* toLowerCase and the site canonicalizer are computed, not assumed.       *)
(***************************************************************************)
EXTENDS Integers, Sequences, FiniteSets, TLC


(***************************************************************************)
(* Strings                                                                 *)
(***************************************************************************)
UpperChars == <<"A","B","C","D","E","F","G","H","I","J","K","L","M",
                "N","O","P","Q","R","S","T","U","V","W","X","Y","Z">>
LowerChars == <<"a","b","c","d","e","f","g","h","i","j","k","l","m",
                "n","o","p","q","r","s","t","u","v","w","x","y","z">>
DigitChars == <<"0","1","2","3","4","5","6","7","8","9">>

Range(s) == { s[i] : i \in DOMAIN s }

\* A code unit outside Latin-1, a control character without an escape of
\* its own, and the grave accent are written by their code point: "U+212A"
\* is one code unit, the Kelvin sign.

\* The characters of ASCII: Ascii[n + 1] is the character with code n
Ascii ==
    <<"U+0000", "U+0001", "U+0002", "U+0003", "U+0004", "U+0005", "U+0006", "U+0007",
      "U+0008", "\t", "\n", "U+000B", "\f", "\r", "U+000E", "U+000F",
      "U+0010", "U+0011", "U+0012", "U+0013", "U+0014", "U+0015", "U+0016", "U+0017",
      "U+0018", "U+0019", "U+001A", "U+001B", "U+001C", "U+001D", "U+001E", "U+001F",
      " ", "!", "\"", "#", "$", "%", "&", "'",
      "(", ")", "*", "+", ",", "-", ".", "/",
      "0", "1", "2", "3", "4", "5", "6", "7",
      "8", "9", ":", ";", "<", "=", ">", "?",
      "@", "A", "B", "C", "D", "E", "F", "G",
      "H", "I", "J", "K", "L", "M", "N", "O",
      "P", "Q", "R", "S", "T", "U", "V", "W",
      "X", "Y", "Z", "[", "\\", "]", "^", "_",
      "U+0060", "a", "b", "c", "d", "e", "f", "g",
      "h", "i", "j", "k", "l", "m", "n", "o",
      "p", "q", "r", "s", "t", "u", "v", "w",
      "x", "y", "z", "{", "|", "}", "~", "U+007F">>

\* U+00A0, the no-break space
NoBreakSpace == " "

\* The characters of Latin-1 from U+00A0 on: Latin1[n - 159] is the
\* character with code n
Latin1 ==
    <<NoBreakSpace,"¡","¢","£","¤","¥","¦","§","¨","©","ª","«","¬","­","®","¯",
      "°","±","²","³","´","µ","¶","·","¸","¹","º","»","¼","½","¾","¿",
      "À","Á","Â","Ã","Ä","Å","Æ","Ç","È","É","Ê","Ë","Ì","Í","Î","Ï",
      "Ð","Ñ","Ò","Ó","Ô","Õ","Ö","×","Ø","Ù","Ú","Û","Ü","Ý","Þ","ß",
      "à","á","â","ã","ä","å","æ","ç","è","é","ê","ë","ì","í","î","ï",
      "ð","ñ","ò","ó","ô","õ","ö","÷","ø","ù","ú","û","ü","ý","þ","ÿ">>

\* The code points of the characters written by their code point
CodePoints ==
    << <<"U+0130", 304>>, <<"U+0307", 775>>, <<"U+1680", 5760>>, <<"U+2000", 8192>>,
       <<"U+2001", 8193>>, <<"U+2002", 8194>>, <<"U+2003", 8195>>, <<"U+2004", 8196>>,
       <<"U+2005", 8197>>, <<"U+2006", 8198>>, <<"U+2007", 8199>>, <<"U+2008", 8200>>,
       <<"U+2009", 8201>>, <<"U+200A", 8202>>, <<"U+2028", 8232>>, <<"U+2029", 8233>>,
       <<"U+202F", 8239>>, <<"U+205F", 8287>>, <<"U+212A", 8490>>, <<"U+212B", 8491>>,
       <<"U+3000", 12288>>, <<"U+FEFF", 65279>> >>

\* The code point of a character of the alphabet
CodePoint(c) ==
    IF c \in Range(Ascii) THEN (CHOOSE i \in DOMAIN Ascii : Ascii[i] = c) - 1
    ELSE IF c \in Range(Latin1) THEN (CHOOSE i \in DOMAIN Latin1 : Latin1[i] = c) + 159
    ELSE (CHOOSE q \in Range(CodePoints) : q[1] = c)[2]

\* WhiteSpace and LineTerminator of ECMAScript, which String.prototype.trim
\* removes: tab, line feed, vertical tab, form feed, carriage return, space,
\* no-break space, the space separators of Unicode, the line and paragraph
\* separators and the byte order mark
IsSpace(c) ==
    c \in { "\t", "\n", "U+000B", "\f", "\r", " ", NoBreakSpace, "U+1680",
            "U+2000", "U+2001", "U+2002", "U+2003", "U+2004", "U+2005",
            "U+2006", "U+2007", "U+2008", "U+2009", "U+200A", "U+2028",
            "U+2029", "U+202F", "U+205F", "U+3000", "U+FEFF" }
IsUpper(c) == c \in Range(UpperChars)
IsLower(c) == c \in Range(LowerChars)
IsDigit(c) == c \in Range(DigitChars)

\* The lower case mapping of one code unit, on the model's alphabet: the
\* capital letters of ASCII and of Latin-1 (U+00C0 to U+00DE without the
\* multiplication sign), the Kelvin and Angstrom signs, and the dotted
\* capital I, which becomes two code units
ToLowerChar(c) ==
    IF IsUpper(c)
    THEN <<LowerChars[CHOOSE i \in DOMAIN UpperChars : UpperChars[i] = c]>>
    ELSE IF c \in Range(Latin1) /\ CodePoint(c) \in (192..222) \ {215}
    THEN <<Latin1[CodePoint(c) + 32 - 159]>>
    ELSE CASE c = "U+212A" -> <<"k">>
           [] c = "U+212B" -> <<"å">>
           [] c = "U+0130" -> <<"i", "U+0307">>
           [] OTHER        -> <<c>>

\* The concatenation of a sequence of strings
Concat(ss) ==
    LET F[lo \in 1..(Len(ss) + 1), hi \in 0..Len(ss)] ==
            IF lo > hi THEN <<>>
            ELSE IF lo = hi THEN ss[lo]
            ELSE F[lo, (lo + hi) \div 2] \o F[(lo + hi) \div 2 + 1, hi]
    IN  F[1, Len(ss)]

\* String.prototype.toLowerCase
toLowerCase(s) == Concat([i \in 1..Len(s) |-> ToLowerChar(s[i])])

\* tr '[:upper:]' '[:lower:]', which works on bytes: only A-Z are changed
tr_lower(s) ==
    [i \in 1..Len(s) |->
        IF IsUpper(s[i])
        THEN LowerChars[CHOOSE k \in DOMAIN UpperChars : UpperChars[k] = s[i]]
        ELSE s[i]]

\* Mutant: every whitespace character is removed, as replace(/\s/g, "") does
trim_AllWhitespace(s) ==
    LET keep == { i \in 1..Len(s) : ~IsSpace(s[i]) }
        F[n \in 0..Len(s)] ==
            IF n = 0 THEN <<>>
            ELSE IF n \in keep THEN Append(F[n - 1], s[n]) ELSE F[n - 1]
    IN  F[Len(s)]

\* String.prototype.trim: leading and trailing whitespace removed
trim(s) ==
    LET keep == { i \in 1..Len(s) : ~IsSpace(s[i]) }
    IN  IF keep = {} THEN <<>>
        ELSE LET lo == CHOOSE i \in keep : \A j \in keep : i <= j
                 hi == CHOOSE i \in keep : \A j \in keep : j <= i
             IN  SubSeq(s, lo, hi)

\* url.trim().toLowerCase(), as both endpoints apply it to their input
Normalize(url) == toLowerCase(trim(url))

HasPrefix(s, p) == Len(s) >= Len(p) /\ SubSeq(s, 1, Len(p)) = p

\* The index of the first character of s that is in cs, or Len(s)+1
FirstOf(s, cs) ==
    LET hits == { i \in 1..Len(s) : s[i] \in cs }
    IN  IF hits = {} THEN Len(s) + 1
        ELSE CHOOSE i \in hits : \A j \in hits : i <= j

DigitVal(c) == (CHOOSE i \in DOMAIN DigitChars : DigitChars[i] = c) - 1

RECURSIVE ParseInt(_)
ParseInt(ds) ==
    IF ds = <<>> THEN 0
    ELSE 10 * ParseInt(SubSeq(ds, 1, Len(ds) - 1)) + DigitVal(ds[Len(ds)])

RECURSIVE IntToStr(_)
IntToStr(n) ==
    IF n < 10 THEN <<DigitChars[n + 1]>>
    ELSE Append(IntToStr(n \div 10), DigitChars[(n % 10) + 1])

(***************************************************************************)
(* Site identity (site.js is not part of the sources at hand: the          *)
(* canonicalizer follows section 4.1 of the specification)                 *)
(***************************************************************************)
SchemeHttp  == <<"h","t","t","p",":","/","/">>
SchemeHttps == <<"h","t","t","p","s",":","/","/">>
Localhost   == <<"l","o","c","a","l","h","o","s","t">>
MinPort == 1
MaxPort == 65535

StripScheme(s) ==
    IF HasPrefix(toLowerCase(s), SchemeHttps) THEN SubSeq(s, Len(SchemeHttps) + 1, Len(s))
    ELSE IF HasPrefix(toLowerCase(s), SchemeHttp) THEN SubSeq(s, Len(SchemeHttp) + 1, Len(s))
    ELSE s

StripQueryAndFragment(s) == SubSeq(s, 1, FirstOf(s, {"?", "#"}) - 1)

\* The labels of a host name: the pieces between dots
RECURSIVE Labels(_)
Labels(h) ==
    LET d == FirstOf(h, {"."})
    IN  IF d > Len(h) THEN <<h>>
        ELSE <<SubSeq(h, 1, d - 1)>> \o Labels(SubSeq(h, d + 1, Len(h)))

LabelOk(l) ==
    /\ l # <<>>
    /\ \A i \in 1..Len(l) : IsLower(l[i]) \/ IsUpper(l[i]) \/ IsDigit(l[i]) \/ l[i] = "-"
    /\ l[1] # "-"
    /\ l[Len(l)] # "-"

IsIpLiteral(h) == \A i \in 1..Len(h) : IsDigit(h[i]) \/ h[i] = "."

HostnameOk(h) ==
    /\ h # <<>>
    /\ \A i \in 1..Len(Labels(h)) : LabelOk(Labels(h)[i])
    /\ Len(Labels(h)) >= 2 \/ toLowerCase(h) = Localhost
    /\ ~IsIpLiteral(h)

\* Site.fromSiteString: a record with ok = TRUE and the site, or ok = FALSE
\* and the name of the validation error it throws
fromSiteString(siteString) ==
    LET s     == StripQueryAndFragment(StripScheme(siteString))
        hEnd  == FirstOf(s, {":", "/"})
        host  == SubSeq(s, 1, hEnd - 1)
        rest  == SubSeq(s, hEnd, Len(s))
        pAt   == FirstOf(rest, {"/"})
        portS == IF rest # <<>> /\ rest[1] = ":" THEN SubSeq(rest, 2, pAt - 1) ELSE <<>>
        hasPort == rest # <<>> /\ rest[1] = ":"
        rawPath == SubSeq(rest, pAt, Len(rest))
        path  == IF rawPath = <<"/">> THEN <<>> ELSE rawPath
        bad(e) == [ok |-> FALSE, error |-> e]
    IN  IF siteString = <<>> \/ \E i \in 1..Len(siteString) : IsSpace(siteString[i])
        THEN bad("invalid-hostname")
        ELSE IF ~HostnameOk(host) THEN bad("invalid-hostname")
        ELSE IF hasPort /\ (portS = <<>> \/ \E i \in 1..Len(portS) : ~IsDigit(portS[i]))
        THEN bad("invalid-port")
        ELSE IF hasPort /\ (ParseInt(portS) < MinPort \/ ParseInt(portS) > MaxPort)
        THEN bad("invalid-port")
        ELSE [ok |-> TRUE,
              site |-> [hostname |-> toLowerCase(host),
                        port |-> IF hasPort THEN ParseInt(portS) ELSE 0,
                        path |-> path]]

\* Mutant: the port is printed also when the site has none
asSiteKey_AlwaysPort(site) ==
    site.hostname \o <<":">> \o IntToStr(site.port) \o site.path

\* Site.asSiteKey: host[:port][/path]
asSiteKey(site) ==
    site.hostname
      \o (IF site.port = 0 THEN <<>> ELSE <<":">> \o IntToStr(site.port))
      \o site.path

(***************************************************************************)
(* Optional values: JavaScript's null / undefined is Null, a value v is    *)
(* Some(v)                                                                 *)
(***************************************************************************)
Null == <<>>
Some(v) == <<v>>

(***************************************************************************)
(* Test battery and grader (scanner/ is not part of the sources at hand:   *)
(* sections 3, 4.3 and 4.4 of the specification)                           *)
(***************************************************************************)
TestNames ==
    { "content-security-policy", "cookies", "cross-origin-resource-sharing",
      "referrer-policy", "strict-transport-security", "subresource-integrity",
      "x-content-type-options", "x-frame-options", "redirection",
      "cross-origin-resource-policy" }

DefaultExpectation(t) ==
    CASE t = "content-security-policy"       -> "csp-implemented-with-no-unsafe"
      [] t = "cookies"                       -> "cookies-secure-with-httponly-sessions"
      [] t = "cross-origin-resource-sharing" -> "cross-origin-resource-sharing-not-implemented"
      [] t = "referrer-policy"               -> "referrer-policy-private"
      [] t = "strict-transport-security"     -> "hsts-implemented-max-age-at-least-six-months"
      [] t = "subresource-integrity"         -> "sri-implemented-and-external-scripts-loaded-securely"
      [] t = "x-content-type-options"        -> "x-content-type-options-nosniff"
      [] t = "x-frame-options"               -> "x-frame-options-sameorigin-or-deny"
      [] t = "redirection"                   -> "redirection-to-https"
      [] OTHER                               -> "cross-origin-resource-policy-implemented-with-same-site"

TestResult(t, result, modifier) ==
    [ expectation      |-> DefaultExpectation(t),
      result           |-> result,
      pass             |-> (result = DefaultExpectation(t)),
      scoreModifier    |-> modifier,
      scoreDescription |-> "human readable description",
      data             |-> Null ]

BaseScore == 100
MinScore  == 0
MaxScore  == 135

RECURSIVE SumModifiers(_, _)
SumModifiers(tests, names) ==
    IF names = {} THEN 0
    ELSE LET t == CHOOSE x \in names : TRUE
         IN  tests[t].scoreModifier + SumModifiers(tests, names \ {t})

\* Mutant: the score is capped but has no floor
Clamp_NoFloor(x) == IF x > MaxScore THEN MaxScore ELSE x

Clamp(x) == IF x < MinScore THEN MinScore ELSE IF x > MaxScore THEN MaxScore ELSE x

\* Mutant: only the modifiers of the tests that passed are added
Score_PassedOnly(tests) ==
    Clamp(BaseScore
          + SumModifiers([t \in {x \in DOMAIN tests : tests[x].pass} |-> tests[t]],
                         {x \in DOMAIN tests : tests[x].pass}))

Score(tests) == Clamp(BaseScore + SumModifiers(tests, DOMAIN tests))

Grade(score) ==
    IF score >= 100 THEN "A+" ELSE IF score >= 90 THEN "A"
    ELSE IF score >= 85 THEN "A-" ELSE IF score >= 80 THEN "B+"
    ELSE IF score >= 70 THEN "B"  ELSE IF score >= 65 THEN "B-"
    ELSE IF score >= 60 THEN "C+" ELSE IF score >= 50 THEN "C"
    ELSE IF score >= 45 THEN "C-" ELSE IF score >= 40 THEN "D+"
    ELSE IF score >= 30 THEN "D"  ELSE IF score >= 25 THEN "D-"
    ELSE "F"

AlgorithmVersion == 5

\* The ScanReport of a retrieval that succeeded with the given test results
Report(statusCode, tests) ==
    [ scan  |-> [ algorithmVersion |-> AlgorithmVersion,
                  grade            |-> Some(Grade(Score(tests))),
                  error            |-> Null,
                  score            |-> Some(Score(tests)),
                  statusCode       |-> Some(statusCode),
                  testsFailed      |-> Cardinality({t \in DOMAIN tests : ~tests[t].pass}),
                  testsPassed      |-> Cardinality({t \in DOMAIN tests : tests[t].pass}),
                  testsQuantity    |-> Cardinality(DOMAIN tests) ],
      tests |-> tests ]

\* The ScanReport of a retrieval that failed: the short circuit of 4.4
FailedReport(error) ==
    [ scan  |-> [ algorithmVersion |-> AlgorithmVersion,
                  grade            |-> Null,
                  error            |-> Some(error),
                  score            |-> Null,
                  statusCode       |-> Null,
                  testsFailed      |-> 0,
                  testsPassed      |-> 0,
                  testsQuantity    |-> 0 ],
      tests |-> [t \in {} |-> Null] ]

(***************************************************************************)
(* What a site currently serves: the scenarios S1, S2 and S6 of section 8  *)
(***************************************************************************)
Postures == {"S1", "S2", "S6"}

\* The test results of scenario S1: every test has the result it expects.
\* The score of S1 is 105, so its results carry 5 points of bonus; of the
\* results of S1 section 4.4 names the strong content security policy as one
\* that earns a bonus, and scenario S3, which is S1 with a policy that costs
\* 20, is graded B+ or worse, that is at most 84 = 105 - 20 - 1: the bonus of
\* S1 is on the policy
TestsS1 ==
    [t \in TestNames |->
        IF t = "content-security-policy" THEN TestResult(t, DefaultExpectation(t), 5)
        ELSE TestResult(t, DefaultExpectation(t), 0)]

\* The test results of scenario S2: those of S1, but the header
\* strict-transport-security is missing
TestsS2 ==
    [TestsS1 EXCEPT !["strict-transport-security"] =
        TestResult("strict-transport-security", "hsts-not-implemented", -20)]

\* scan(site) for a site in the given posture
ScanOf(served) ==
    CASE served = "S1" -> Report(200, TestsS1)
      [] served = "S2" -> Report(200, TestsS2)
      [] OTHER          -> FailedReport("connection-error")

(***************************************************************************)
(* Fixtures: the host strings callers submit and how the world answers     *)
(***************************************************************************)
U_ab     == <<"a", ".", "b">>
U_AB     == <<" ", "A", ".", "B", " ">>
U_httpab == SchemeHttp \o U_ab
U_cd     == <<"c", ".", "d">>
U_path   == <<"a", ".", "b", "/", "P">>
U_space  == <<"a", ".", " ", "b">>
U_port0  == <<"a", ".", "b", ":", "0">>
U_nx     == <<"n", "x", ".", "d">>
U_rd     == <<"r", ".", "d">>
U_xd     == <<"x", ".", "d">>
U_yd     == <<"y", ".", "d">>
U_proto  == <<"_", "_", "p", "r", "o", "t", "o", "_", "_">>
U_n1     == <<"n", "1", ".", "d">>
U_n2     == <<"n", "2", ".", "d">>
U_n3     == <<"n", "3", ".", "d">>
U_n4     == <<"n", "4", ".", "d">>
U_n5     == <<"n", "5", ".", "d">>

\* Host names with an A/AAAA answer
DnsNames == {U_ab, U_cd, U_rd, U_xd, U_yd}
\* Sites that answer probes; x.d and y.d resolve but the scanner fails on them
LiveHosts == {U_ab, U_cd}

\* scan(site), by what the site serves
Reports == [p \in Postures |-> ScanOf(p)]

\* An Error object: its name, its constructor's name and its message
Err(name, type, message) == [name |-> name, type |-> type, message |-> message]

ErrInvalid(name) == Err(name, "AppError", "the host is invalid")
ErrLookup  == Err("invalid-hostname-lookup", "AppError", "the host cannot be resolved")
ErrDatabase == Err("error", "DatabaseError", "connection terminated unexpectedly")
ErrScanFailed == Err("scan-failed", "ScanFailedError", "")

\* checkSitename(site): the DNS lookup of utils.js
checkSitenameOk(site) == site.hostname \in DnsNames

\* The database read fails for the site r.d
DbReadFails(siteKey) == HasPrefix(siteKey, U_rd)
\* The scanner throws on the sites x.d and y.d
ScanThrows(site) == site.hostname \in {U_xd, U_yd}

(***************************************************************************)
(* Persistence (database/repository.js and utils.js are not part of the    *)
(* sources at hand: section 6 of the specification)                        *)
(***************************************************************************)
\* CONFIG.api.cooldown, in seconds
Cooldown == 60

\* The summary row executeScan persists for a report
RowOf(id, siteKey, startTime, report) ==
    [ id                |-> id,
      site_key          |-> siteKey,
      start_time        |-> startTime,
      algorithm_version |-> report.scan.algorithmVersion,
      grade             |-> report.scan.grade,
      score             |-> report.scan.score,
      status_code       |-> report.scan.statusCode,
      error             |-> report.scan.error,
      tests_failed      |-> report.scan.testsFailed,
      tests_passed      |-> report.scan.testsPassed,
      tests_quantity    |-> report.scan.testsQuantity ]

\* selectScanLatestScanByHost(pool, siteKey, age): the latest row of the
\* site that is younger than age, or nothing
selectScanLatestScanBySite(rows, siteKey, age, time) ==
    LET young == { i \in 1..Len(rows) :
                     rows[i].site_key = siteKey /\ time - rows[i].start_time < age }
    IN  IF young = {} THEN Null
        ELSE Some(rows[CHOOSE i \in young : \A j \in young : j <= i])

\* executeScan(pool, site): scans the site and persists the summary row
executeScan(rows, site, time, report) ==
    LET row == RowOf(Len(rows) + 1, asSiteKey(site), time, report)
    IN  [row |-> row, rows |-> Append(rows, row)]

(***************************************************************************)
(* Bounds of the model                                                     *)
(***************************************************************************)
\* Concurrent POST /scanFullDetails requests
NumRequests == 2
\* POST /scanFullDetails requests that arrive next to a batch
NumMixed == 1
\* POST /scanBatchFullDetails requests under way at once
NumBatches == 2
\* Clock ticks, of half a cooldown each
MaxTicks == 2

DEFAULT_CONCURRENCY == 5
MAX_BATCH_SIZE == 10

Requests == 1..NumRequests

(***************************************************************************)
(* Response construction                                                   *)
(***************************************************************************)
OrElse(v, default) == IF v = "" THEN default ELSE v

\* %XX for one byte, with upper case hexadecimal digits
PercentByte(b) ==
    LET Hex == DigitChars \o <<"A", "B", "C", "D", "E", "F">>
    IN  <<"%", Hex[(b \div 16) + 1], Hex[(b % 16) + 1]>>

\* The bytes of the UTF-8 encoding of a code point below 2^16
Utf8(n) ==
    IF n < 128 THEN <<n>>
    ELSE IF n < 2048 THEN <<192 + (n \div 64), 128 + (n % 64)>>
    ELSE <<224 + (n \div 4096), 128 + ((n \div 64) % 64), 128 + (n % 64)>>

\* encodeURIComponent: letters, digits and - _ . ! ~ * ' ( ) are kept, every
\* other character becomes the escaped bytes of its UTF-8 encoding
encodeURIComponent(s) ==
    LET Kept(c) == IsUpper(c) \/ IsLower(c) \/ IsDigit(c)
                   \/ c \in { "-", "_", ".", "!", "~", "*", "'", "(", ")" }
        Escaped(c) == LET bytes == Utf8(CodePoint(c))
                      IN  Concat([ k \in 1..Len(bytes) |-> PercentByte(bytes[k]) ])
    IN  Concat([ i \in 1..Len(s) |-> IF Kept(s[i]) THEN <<s[i]>> ELSE Escaped(s[i]) ])

\* CONFIG of config.js, as far as the endpoints read it: api.baseUrl, which
\* is the empty string unless the deployment sets it
VARIABLE config

\* "https://developer.mozilla.org/en-US/observatory"
MdnObservatory ==
    <<"h", "t", "t", "p", "s", ":", "/", "/", "d", "e", "v", "e", "l", "o",
      "p", "e", "r", ".", "m", "o", "z", "i", "l", "l", "a", ".", "o", "r",
      "g", "/", "e", "n", "-", "U", "S", "/", "o", "b", "s", "e", "r", "v",
      "a", "t", "o", "r", "y">>

\* "/analyze?host="
AnalyzeHost == <<"/", "a", "n", "a", "l", "y", "z", "e", "?", "h", "o", "s", "t", "=">>

\* The details URL: under CONFIG.api.baseUrl if it is set, on MDN otherwise
DetailsUrl(site) ==
    IF config.api.baseUrl # <<>>
    THEN config.api.baseUrl \o AnalyzeHost \o encodeURIComponent(asSiteKey(site))
    ELSE MdnObservatory \o AnalyzeHost \o encodeURIComponent(asSiteKey(site))

\* Mutant: the test is rebuilt from a list of fields that forgets data
WithoutScoreDescription_DropsData(test) ==
    [f \in (DOMAIN test) \ {"scoreDescription", "data"} |-> test[f]]

\* const { scoreDescription, ...rest } = test
WithoutScoreDescription(test) ==
    [f \in (DOMAIN test) \ {"scoreDescription"} |-> test[f]]

StripTests(tests) == [k \in DOMAIN tests |-> WithoutScoreDescription(tests[k])]

\* Mutant: the cached row is ignored and every request runs executeScan
NeedsExecute_Always(scanRow) == TRUE

\* if (!scanRow) of scanOrReturnRecentWithFullDetails
NeedsExecute(scanRow) == scanRow = Null

\* Mutant: fullDetails is filled from the persisted summary row
FullDetails_FromRow(scanRow, fullScanResult) ==
    [scan  |-> [ algorithmVersion |-> scanRow.algorithm_version,
                 grade            |-> scanRow.grade,
                 error            |-> scanRow.error,
                 score            |-> scanRow.score,
                 statusCode       |-> scanRow.status_code,
                 testsFailed      |-> scanRow.tests_failed,
                 testsPassed      |-> scanRow.tests_passed,
                 testsQuantity    |-> scanRow.tests_quantity ],
     tests |-> <<>>]

\* fullDetails of the /scanFullDetails response
FullDetails(scanRow, fullScanResult) ==
    [scan |-> fullScanResult.scan, tests |-> StripTests(fullScanResult.tests)]

\* Mutant: grade and score of the summary are taken from the fresh scan
BuildResponse_FromDetails(scanRow, fullScanResult, site) ==
    [ id                |-> scanRow.id,
      details_url       |-> DetailsUrl(site),
      algorithm_version |-> scanRow.algorithm_version,
      scanned_at        |-> scanRow.start_time,
      error             |-> scanRow.error,
      grade             |-> fullScanResult.scan.grade,
      score             |-> fullScanResult.scan.score,
      status_code       |-> scanRow.status_code,
      tests_failed      |-> scanRow.tests_failed,
      tests_passed      |-> scanRow.tests_passed,
      tests_quantity    |-> scanRow.tests_quantity,
      fullDetails       |-> [scan  |-> fullScanResult.scan,
                             tests |-> StripTests(fullScanResult.tests)] ]

\* Mutant: the error of the summary is taken from the fresh scan
BuildResponse_ErrorFromDetails(scanRow, fullScanResult, site) ==
    [ id                |-> scanRow.id,
      details_url       |-> DetailsUrl(site),
      algorithm_version |-> scanRow.algorithm_version,
      scanned_at        |-> scanRow.start_time,
      error             |-> fullScanResult.scan.error,
      grade             |-> scanRow.grade,
      score             |-> scanRow.score,
      status_code       |-> scanRow.status_code,
      tests_failed      |-> scanRow.tests_failed,
      tests_passed      |-> scanRow.tests_passed,
      tests_quantity    |-> scanRow.tests_quantity,
      fullDetails       |-> [scan  |-> fullScanResult.scan,
                             tests |-> StripTests(fullScanResult.tests)] ]

\* Mutant: tests_quantity of the summary is taken from the fresh scan
BuildResponse_MixedCounts(scanRow, fullScanResult, site) ==
    [ id                |-> scanRow.id,
      details_url       |-> DetailsUrl(site),
      algorithm_version |-> scanRow.algorithm_version,
      scanned_at        |-> scanRow.start_time,
      error             |-> scanRow.error,
      grade             |-> scanRow.grade,
      score             |-> scanRow.score,
      status_code       |-> scanRow.status_code,
      tests_failed      |-> scanRow.tests_failed,
      tests_passed      |-> scanRow.tests_passed,
      tests_quantity    |-> fullScanResult.scan.testsQuantity,
      fullDetails       |-> [scan  |-> fullScanResult.scan,
                             tests |-> StripTests(fullScanResult.tests)] ]

\* Mutant: the score of the summary is taken from the fresh scan
BuildResponse_ScoreFromDetails(scanRow, fullScanResult, site) ==
    [ BuildResponse_FromDetails(scanRow, fullScanResult, site)
        EXCEPT !.grade = scanRow.grade ]

\* The response object of scanOrReturnRecentWithFullDetails
BuildResponse(scanRow, fullScanResult, site) ==
    [ id                |-> scanRow.id,
      details_url       |-> DetailsUrl(site),
      algorithm_version |-> scanRow.algorithm_version,
      scanned_at        |-> scanRow.start_time,
      error             |-> scanRow.error,
      grade             |-> scanRow.grade,
      score             |-> scanRow.score,
      status_code       |-> scanRow.status_code,
      tests_failed      |-> scanRow.tests_failed,
      tests_passed      |-> scanRow.tests_passed,
      tests_quantity    |-> scanRow.tests_quantity,
      fullDetails       |-> FullDetails(scanRow, fullScanResult) ]

\* if (!scanRow) of scanWithFullDetails
NeedsExecuteBatch(scanRow) == scanRow = Null

\* Mutant: the batch entry keeps the tests as the scanner produced them
BuildEntry_KeepsDescriptions(scanRow, fullScanResult, site) ==
    [ success           |-> TRUE,
      id                |-> scanRow.id,
      details_url       |-> DetailsUrl(site),
      algorithm_version |-> scanRow.algorithm_version,
      scanned_at        |-> scanRow.start_time,
      error             |-> scanRow.error,
      grade             |-> scanRow.grade,
      score             |-> scanRow.score,
      status_code       |-> scanRow.status_code,
      tests_failed      |-> scanRow.tests_failed,
      tests_passed      |-> scanRow.tests_passed,
      tests_quantity    |-> scanRow.tests_quantity,
      fullDetails       |-> [scan  |-> fullScanResult.scan,
                             tests |-> fullScanResult.tests] ]

\* The entry scanWithFullDetails returns
BuildEntry(scanRow, fullScanResult, site) ==
    [ success           |-> TRUE,
      id                |-> scanRow.id,
      details_url       |-> DetailsUrl(site),
      algorithm_version |-> scanRow.algorithm_version,
      scanned_at        |-> scanRow.start_time,
      error             |-> scanRow.error,
      grade             |-> scanRow.grade,
      score             |-> scanRow.score,
      status_code       |-> scanRow.status_code,
      tests_failed      |-> scanRow.tests_failed,
      tests_passed      |-> scanRow.tests_passed,
      tests_quantity    |-> scanRow.tests_quantity,
      fullDetails       |-> [scan  |-> fullScanResult.scan,
                             tests |-> StripTests(fullScanResult.tests)] ]

\* The entry the catch block of scanSingleUrl returns
ErrorEntry(err) ==
    [ success   |-> FALSE,
      error     |-> OrElse(err.name, "error-unknown"),
      errorType |-> OrElse(err.type, "Error"),
      message   |-> OrElse(err.message, "Unknown error occurred") ]

(***************************************************************************)
(* State                                                                   *)
(***************************************************************************)
VARIABLES
    now,            \* the clock, in seconds
    db,             \* the persisted scan rows, in the order of their ids
    posture,        \* what each live site currently serves
    load,           \* the requests the clients send in this run
    pc,             \* where each job (request or batch entry) stands
    input,          \* the host string the job was given
    site,           \* the job's Site, once parsed
    scanRow,        \* the job's scanRow
    thrown,         \* the error the job threw
    hit,            \* the row the database read of the job answered with
    reads,          \* the database reads the job issued
    persisted,      \* the ids of the rows the job persisted
    probes,         \* the retrievals the job performed, in order
    before,         \* the jobs that had finished when the job started
    bpc,            \* where the handler of each batch request stands
    urls,           \* body.urls of each batch request
    items,          \* normalizedUrls of each batch request
    idx,            \* the index of the next item of its for loop
    executing,      \* the jobs whose promise is in its executing set
    results,        \* its results object: the job whose value each key holds
    canon,          \* a host string and what canonicalizing it once and twice gave
    graded,         \* two scans of the same observations and their reports
    boot,           \* the container: its entrypoint script and PostgreSQL
    line,           \* an input line and what parse_url gave for it, once and twice
    sh              \* a run of concurrent-scan.sh

vars == <<now, db, posture, config, load, pc, input, site, scanRow, thrown,
          hit, reads, persisted, probes, before,
          bpc, urls, items, idx, executing, results, canon, graded,
          boot, line, sh>>

jobVars   == <<pc, input, site, scanRow, thrown, hit, reads, persisted, probes, before>>
batchVars == <<bpc, urls, items, idx, executing, results>>
\* The deployment and its clients
envVars   == <<config, load>>
\* The state of the scripts of the repository
scriptVars == <<boot, line, sh>>
\* The state of the runs of the canonicalizer, the grader and the scripts by
\* themselves
pureVars  == <<canon, graded, scriptVars>>

\* The batch requests, in the order of their arrival
BatchIds == 1..NumBatches

\* The jobs: the requests to /scanFullDetails have the numbers 1 to
\* NumRequests, the entries of batch b the numbers that follow, MAX_BATCH_SIZE
\* for each batch
Jobs == DOMAIN pc
EntryId(b, i) == NumRequests + (b - 1) * MAX_BATCH_SIZE + i
IsEntry(j) == j > NumRequests
BatchOf(j) == ((j - NumRequests - 1) \div MAX_BATCH_SIZE) + 1
ItemOf(j) == ((j - NumRequests - 1) % MAX_BATCH_SIZE) + 1
Entries(b) == { EntryId(b, i) : i \in 1..Len(items[b]) }

Finished(j) == pc[j] \in {"done", "thrown"}
SiteKey(j) == asSiteKey(site[j][1])
\* The job has a retrieval of its site under way
Scanning(j) == pc[j] \in {"exec", "scan"}

\* const fullScanResult = await scan(site): the report of the job's last
\* retrieval
FullScanResult(j) == ScanOf(probes[j][Len(probes[j])].saw)

\* What the request handler of /scanFullDetails returned
Response(j) == BuildResponse(scanRow[j][1], FullScanResult(j), site[j][1])

\* What scanSingleUrl returned for a batch entry
Entry(j) ==
    IF pc[j] = "done"
    THEN BuildEntry(scanRow[j][1], FullScanResult(j), site[j][1])
    ELSE ErrorEntry(thrown[j][1])

TickLength == Cooldown \div 2

\* The host strings submitted to POST /scanFullDetails
SingleHosts == {U_AB, U_space, U_nx, U_xd}

\* The urls arrays submitted to POST /scanBatchFullDetails while other
\* requests are under way
SmallBatches ==
    { <<U_xd, U_AB>>, <<U_space, U_ab>> }

\* The urls arrays submitted to POST /scanBatchFullDetails by themselves
Batches ==
    { <<U_ab, U_AB, U_httpab>>,
      <<U_n1, U_n2, U_n3, U_n4, U_n5, U_cd, U_nx, U_cd, U_n1, U_n2>>,
      <<U_space, U_port0, U_nx, U_rd, U_xd, U_yd, U_cd>>,
      <<U_proto, U_cd>>,
      <<U_path, U_ab>> }

\* An array of MAX_BATCH_SIZE + 1 urls
TooManyUrls == [i \in 1..(MAX_BATCH_SIZE + 1) |-> U_cd]

\* The bodies submitted to POST /scanBatchFullDetails: the arrays above, an
\* empty array, an array that is too long and a body without urls
BodiesOf(arrays) == {[urls |-> us] : us \in arrays}
Bodies ==
    BodiesOf(Batches \cup {<<>>, TooManyUrls}) \cup {[host |-> U_cd]}

\* The runs: what the deployment sets CONFIG.api.baseUrl to, how many
\* requests of either kind the clients send, and what the requests hold.
\* Requests to /scanFullDetails by themselves, requests of both kinds while
\* the others are under way, batches while and after another batch is under
\* way, and the large batches by themselves.
YourDomain ==
    <<"h", "t", "t", "p", "s", ":", "/", "/", "y", "o", "u", "r", "-",
      "d", "o", "m", "a", "i", "n", ".", "c", "o", "m">>

Runs ==
    { [ baseUrl |-> <<>>, requests |-> NumRequests, hosts |-> SingleHosts,
        batches |-> 0, bodies |-> {} ],
      [ baseUrl |-> YourDomain, requests |-> NumMixed, hosts |-> SingleHosts,
        batches |-> 1, bodies |-> BodiesOf(SmallBatches) ],
      [ baseUrl |-> YourDomain, requests |-> 0, hosts |-> {},
        batches |-> NumBatches, bodies |-> BodiesOf(SmallBatches) ],
      [ baseUrl |-> <<>>, requests |-> 0, hosts |-> {},
        batches |-> 1, bodies |-> Bodies ] }

InitJobs(J) ==
    /\ pc = [j \in J |-> "idle"]
    /\ input = [j \in J |-> <<>>]
    /\ site = [j \in J |-> Null]
    /\ scanRow = [j \in J |-> Null]
    /\ thrown = [j \in J |-> Null]
    /\ hit = [j \in J |-> Null]
    /\ reads = [j \in J |-> 0]
    /\ persisted = [j \in J |-> {}]
    /\ probes = [j \in J |-> <<>>]
    /\ before = [j \in J |-> {}]

InitNoBatch ==
    /\ bpc = [b \in BatchIds |-> "none"]
    /\ urls = [b \in BatchIds |-> <<>>]
    /\ items = [b \in BatchIds |-> <<>>]
    /\ idx = [b \in BatchIds |-> 1]
    /\ executing = [b \in BatchIds |-> {}]
    /\ results = [b \in BatchIds |-> <<>>]

\* The rows persisted before the run, both scanned at time 0: a row of x.d,
\* when the scanner still coped with the site, and a row of a.b, which was
\* unreachable then
SeedDb == <<RowOf(1, U_xd, 0, ScanOf("S1")), RowOf(2, U_ab, 0, ScanOf("S6"))>>

\* The server before its first request, in the run r
InitRun(r) ==
    /\ now = 0
    /\ db = SeedDb
    /\ posture = [h \in LiveHosts |-> "S1"]
    /\ config = [api |-> [baseUrl |-> r.baseUrl]]
    /\ load = [requests |-> r.requests, hosts |-> r.hosts,
               batches |-> r.batches, bodies |-> r.bodies]
    /\ InitJobs(Requests)
    /\ InitNoBatch

\* The server without clients
InitServer ==
    InitRun([baseUrl |-> <<>>, requests |-> 0, hosts |-> {}, batches |-> 0,
             bodies |-> {}])

\* No script runs
InitNoScript ==
    /\ boot = Null
    /\ line = Null
    /\ sh = Null

Init ==
    /\ \E r \in Runs : InitRun(r)
    /\ canon = Null
    /\ graded = Null
    /\ InitNoScript

(***************************************************************************)
(* The steps every job takes, between two awaits each.  JavaScript runs a  *)
(* handler without interruption up to its next await: while the for loop   *)
(* of a batch runs, no other step is taken, and once an await of a batch   *)
(* is resolved only promise callbacks run until the handler has resumed.   *)
(***************************************************************************)
\* The for loop of a batch runs
InLoop == \E b \in BatchIds : bpc[b] = "loop"
\* The continuation of a batch handler is due
Resuming == \E b \in BatchIds : bpc[b] = "resume"
\* The then-callback of a settled scanSingleUrl promise is due
Pending == \E j \in Jobs : IsEntry(j) /\ Finished(j) /\ j \in executing[BatchOf(j)]
\* The event loop takes the next event: no handler runs and no promise
\* callback is due
EventLoop == ~InLoop /\ ~Resuming /\ ~Pending

\* The job throws err
Throw(j, err) ==
    /\ pc' = [pc EXCEPT ![j] = "thrown"]
    /\ thrown' = [thrown EXCEPT ![j] = Some(err)]

\* The strings the clients submit as host or as one of the urls
Submitted ==
    SingleHosts \cup UNION {Range(us) : us \in Batches \cup SmallBatches \cup {TooManyUrls}}

\* url.trim().toLowerCase() for every submitted string
Normalized == [raw \in Submitted |-> Normalize(raw)]

\* Site.fromSiteString(url.trim().toLowerCase()) for every string the
\* endpoints are given
Parsed ==
    [ raw \in SingleHosts \cup Range(Normalized) |-> fromSiteString(Normalize(raw)) ]

\* const hostname = host.trim().toLowerCase(); Site.fromSiteString(hostname);
\* then checkSitename(site) is awaited
Begin(j, raw) ==
    LET parsed == Parsed[raw]
    IN  /\ input' = [input EXCEPT ![j] = raw]
        /\ before' = [before EXCEPT ![j] = {k \in Jobs : Finished(k)}]
        /\ IF parsed.ok
           THEN /\ site' = [site EXCEPT ![j] = Some(parsed.site)]
                /\ pc' = [pc EXCEPT ![j] = "check"]
                /\ UNCHANGED thrown
           ELSE /\ Throw(j, ErrInvalid(parsed.error))
                /\ UNCHANGED site
        /\ UNCHANGED <<scanRow, hit, reads, persisted, probes>>

\* checkSitename answers; on success the database read is issued
Checked(j) ==
    /\ pc[j] = "check"
    /\ IF checkSitenameOk(site[j][1])
       THEN pc' = [pc EXCEPT ![j] = "select"] /\ UNCHANGED thrown
       ELSE Throw(j, ErrLookup)
    /\ UNCHANGED <<input, site, scanRow, hit, reads, persisted, probes, before>>

\* selectScanLatestScanBySite answers; without a row executeScan is started,
\* with one the fresh scan is
Selected(j, batch) ==
    /\ pc[j] = "select"
    /\ reads' = [reads EXCEPT ![j] = @ + 1]
    /\ IF DbReadFails(SiteKey(j))
       THEN /\ Throw(j, ErrDatabase)
            /\ UNCHANGED <<scanRow, hit>>
       ELSE LET row == selectScanLatestScanBySite(db, SiteKey(j), Cooldown, now)
            IN  /\ scanRow' = [scanRow EXCEPT ![j] = row]
                /\ hit' = [hit EXCEPT ![j] = row]
                /\ pc' = [pc EXCEPT ![j] =
                            IF (IF batch THEN NeedsExecuteBatch(row) ELSE NeedsExecute(row))
                            THEN "exec" ELSE "scan"]
                /\ UNCHANGED thrown
    /\ UNCHANGED <<input, site, persisted, probes, before>>

\* executeScan answers: the site was retrieved and the row persisted
Executed(j) ==
    /\ pc[j] = "exec"
    /\ IF ScanThrows(site[j][1])
       THEN /\ Throw(j, ErrScanFailed)
            /\ probes' = [probes EXCEPT ![j] = Append(@, [kind |-> "execute", saw |-> "throw"])]
            /\ UNCHANGED <<db, scanRow, persisted>>
       ELSE LET saw == posture[site[j][1].hostname]
                ex  == executeScan(db, site[j][1], now, Reports[saw])
            IN  /\ db' = ex.rows
                /\ scanRow' = [scanRow EXCEPT ![j] = Some(ex.row)]
                /\ persisted' = [persisted EXCEPT ![j] = @ \cup {ex.row.id}]
                /\ probes' = [probes EXCEPT ![j] = Append(@, [kind |-> "execute", saw |-> saw])]
                /\ pc' = [pc EXCEPT ![j] = "scan"]
                /\ UNCHANGED thrown
    /\ UNCHANGED <<input, site, hit, reads, before>>

\* scan(site) answers and the handler returns what it builds from scanRow
\* and fullScanResult
Scanned(j) ==
    /\ pc[j] = "scan"
    /\ IF ScanThrows(site[j][1])
       THEN /\ Throw(j, ErrScanFailed)
            /\ probes' = [probes EXCEPT ![j] = Append(@, [kind |-> "fresh", saw |-> "throw"])]
       ELSE /\ probes' = [probes EXCEPT ![j] =
                            Append(@, [kind |-> "fresh", saw |-> posture[site[j][1].hostname]])]
            /\ pc' = [pc EXCEPT ![j] = "done"]
            /\ UNCHANGED thrown
    /\ UNCHANGED <<input, site, scanRow, hit, reads, persisted, before>>

(***************************************************************************)
(* POST /scanFullDetails                                                   *)
(***************************************************************************)
\* A request arrives: the handler runs up to its first await.  Requests are
\* numbered in the order of their arrival.
Request(j, raw) ==
    /\ EventLoop
    /\ j \in Requests
    /\ pc[j] = "idle"
    /\ \A k \in Requests : k < j => pc[k] # "idle"
    /\ Begin(j, raw)
    /\ UNCHANGED <<now, db, posture, batchVars, envVars, pureVars>>

RequestChecked(j) ==
    /\ EventLoop
    /\ j \in Requests
    /\ Checked(j)
    /\ UNCHANGED <<now, db, posture, batchVars, envVars, pureVars>>

RequestSelected(j) ==
    /\ EventLoop
    /\ j \in Requests
    /\ Selected(j, FALSE)
    /\ UNCHANGED <<now, db, posture, batchVars, envVars, pureVars>>

RequestExecuted(j) ==
    /\ EventLoop
    /\ j \in Requests
    /\ Executed(j)
    /\ UNCHANGED <<now, posture, batchVars, envVars, pureVars>>

RequestScanned(j) ==
    /\ EventLoop
    /\ j \in Requests
    /\ Scanned(j)
    /\ UNCHANGED <<now, db, posture, batchVars, envVars, pureVars>>

(***************************************************************************)
(* POST /scanBatchFullDetails                                              *)
(***************************************************************************)
\* uniqueUrls: the urls whose normalized form no earlier url has
RECURSIVE UniqueUrls(_, _)
UniqueUrls(us, seen) ==
    IF us = <<>> THEN <<>>
    ELSE IF Normalize(Head(us)) \in seen
         THEN UniqueUrls(Tail(us), seen)
         ELSE <<Head(us)>> \o UniqueUrls(Tail(us), seen \cup {Normalize(Head(us))})

\* normalizedUrls = uniqueUrls.map((u) => u.trim().toLowerCase())
NormalizedUrls(us) ==
    LET unique == UniqueUrls(us, {})
    IN  [i \in 1..Len(unique) |-> Normalize(unique[i])]

\* results[item] = result.  Assigning the key __proto__ of a plain object
\* calls the setter of Object.prototype: the object's prototype is replaced
\* and it gains no property of its own
SetResult(res, item, j) ==
    IF item = U_proto THEN res
    ELSE [k \in (DOMAIN res) \cup {item} |-> IF k = item THEN j ELSE res[k]]

\* Mutant: the loop waits only once more than limit promises are executing
RaceNeeded_OffByOne(size, limit) == size > limit

\* Mutant: the loop already waits with one slot free
RaceNeeded_OneSlotFree(size, limit) == size >= limit - 1

\* if (executing.size >= limit)
RaceNeeded(size, limit) == size >= limit

\* Mutant: the schema lacks maxItems
BodyAccepted_NoMaxItems(body) ==
    /\ "urls" \in DOMAIN body
    /\ Len(body.urls) >= 1

\* The schema of the body: urls is required and is an array of 1 to
\* MAX_BATCH_SIZE strings
BodyAccepted(body) ==
    /\ "urls" \in DOMAIN body
    /\ Len(body.urls) >= 1
    /\ Len(body.urls) <= MAX_BATCH_SIZE

\* A body the schema rejects: the handler is not called.  Batch requests are
\* numbered in the order of their arrival.
BatchRejected(b, body) ==
    /\ EventLoop
    /\ bpc[b] = "none"
    /\ \A c \in BatchIds : c < b => bpc[c] # "none"
    /\ ~BodyAccepted(body)
    /\ bpc' = [bpc EXCEPT ![b] = "rejected"]
    /\ urls' = [urls EXCEPT ![b] = IF "urls" \in DOMAIN body THEN body.urls ELSE <<>>]
    /\ UNCHANGED <<now, db, posture, jobVars, items, idx, executing, results,
                   envVars, pureVars>>

\* A batch request arrives: the handler dedups and normalizes the urls and
\* enters runWithConcurrency; the entries become jobs
BatchRequest(b, body) ==
    /\ EventLoop
    /\ bpc[b] = "none"
    /\ \A c \in BatchIds : c < b => bpc[c] # "none"
    /\ BodyAccepted(body)
    /\ urls' = [urls EXCEPT ![b] = body.urls]
    /\ items' = [items EXCEPT ![b] = NormalizedUrls(body.urls)]
    /\ bpc' = [bpc EXCEPT ![b] = "loop"]
    /\ LET new == { EntryId(b, i) : i \in 1..Len(items'[b]) }
       IN  /\ pc' = pc @@ [j \in new |-> "idle"]
           /\ input' = input @@ [j \in new |-> <<>>]
           /\ site' = site @@ [j \in new |-> Null]
           /\ scanRow' = scanRow @@ [j \in new |-> Null]
           /\ thrown' = thrown @@ [j \in new |-> Null]
           /\ hit' = hit @@ [j \in new |-> Null]
           /\ reads' = reads @@ [j \in new |-> 0]
           /\ persisted' = persisted @@ [j \in new |-> {}]
           /\ probes' = probes @@ [j \in new |-> <<>>]
           /\ before' = before @@ [j \in new |-> {}]
    /\ UNCHANGED <<now, db, posture, idx, executing, results, envVars, pureVars>>

\* One iteration of the for loop: fn(item) runs scanSingleUrl up to its first
\* await, the promise joins executing, and the loop either awaits
\* Promise.race or goes on
StartItem(b) ==
    /\ bpc[b] = "loop"
    /\ idx[b] <= Len(items[b])
    /\ Begin(EntryId(b, idx[b]), items[b][idx[b]])
    /\ executing' = [executing EXCEPT ![b] = @ \cup {EntryId(b, idx[b])}]
    /\ idx' = [idx EXCEPT ![b] = @ + 1]
    /\ bpc' = [bpc EXCEPT ![b] =
                  IF RaceNeeded(Cardinality(executing'[b]), DEFAULT_CONCURRENCY)
                  THEN "race" ELSE "loop"]
    /\ UNCHANGED <<now, db, posture, urls, items, results, envVars, pureVars>>

\* The loop is over: await Promise.all(executing)
LoopEnd(b) ==
    /\ bpc[b] = "loop"
    /\ idx[b] > Len(items[b])
    /\ bpc' = [bpc EXCEPT ![b] = "all"]
    /\ UNCHANGED <<now, db, posture, jobVars, urls, items, idx, executing, results,
                   envVars, pureVars>>

\* The steps of scanSingleUrl and scanWithFullDetails, taken while the
\* handler awaits
TaskChecked(j) ==
    /\ EventLoop
    /\ IsEntry(j)
    /\ Checked(j)
    /\ UNCHANGED <<now, db, posture, batchVars, envVars, pureVars>>

TaskSelected(j) ==
    /\ EventLoop
    /\ IsEntry(j)
    /\ Selected(j, TRUE)
    /\ UNCHANGED <<now, db, posture, batchVars, envVars, pureVars>>

TaskExecuted(j) ==
    /\ EventLoop
    /\ IsEntry(j)
    /\ Executed(j)
    /\ UNCHANGED <<now, posture, batchVars, envVars, pureVars>>

TaskScanned(j) ==
    /\ EventLoop
    /\ IsEntry(j)
    /\ Scanned(j)
    /\ UNCHANGED <<now, db, posture, batchVars, envVars, pureVars>>

\* Mutant: the then-callback stores the result and leaves the promise in
\* executing
Settled_NoDelete(j) ==
    /\ ~InLoop
    /\ IsEntry(j)
    /\ j \in executing[BatchOf(j)]
    /\ Finished(j)
    /\ results' = [results EXCEPT ![BatchOf(j)] =
                      SetResult(@, items[BatchOf(j)][ItemOf(j)], j)]
    /\ bpc' = [bpc EXCEPT ![BatchOf(j)] = IF @ = "race" THEN "resume" ELSE @]
    /\ UNCHANGED <<now, db, posture, jobVars, urls, items, idx, executing,
                   envVars, pureVars>>

\* The then-callback of a settled scanSingleUrl promise: the result is stored
\* and the promise leaves executing, which resolves a pending Promise.race
Settled(j) ==
    /\ ~InLoop
    /\ IsEntry(j)
    /\ j \in executing[BatchOf(j)]
    /\ Finished(j)
    /\ results' = [results EXCEPT ![BatchOf(j)] =
                      SetResult(@, items[BatchOf(j)][ItemOf(j)], j)]
    /\ executing' = [executing EXCEPT ![BatchOf(j)] = @ \ {j}]
    /\ bpc' = [bpc EXCEPT ![BatchOf(j)] = IF @ = "race" THEN "resume" ELSE @]
    /\ UNCHANGED <<now, db, posture, jobVars, urls, items, idx, envVars, pureVars>>

\* The loop continues after await Promise.race(executing)
Resume(b) ==
    /\ ~InLoop
    /\ bpc[b] = "resume"
    /\ bpc' = [bpc EXCEPT ![b] = "loop"]
    /\ UNCHANGED <<now, db, posture, jobVars, urls, items, idx, executing, results,
                   envVars, pureVars>>

\* Promise.all(executing) resolves and the handler returns results
Return(b) ==
    /\ ~InLoop
    /\ bpc[b] = "all"
    /\ executing[b] = {}
    /\ bpc' = [bpc EXCEPT ![b] = "returned"]
    /\ UNCHANGED <<now, db, posture, jobVars, urls, items, idx, executing, results,
                   envVars, pureVars>>

\* The map the handler of batch b returned: the own keys of results and
\* their values
ReturnedMap(b) == [k \in DOMAIN results[b] |-> Entry(results[b][k])]

(***************************************************************************)
(* The world                                                               *)
(***************************************************************************)
\* Time passes.  Only the age of a row is ever observed, and only by the
\* database read of a job for the row's site: the clock is advanced while
\* such a read is ahead
Tick ==
    /\ EventLoop
    /\ now < MaxTicks * TickLength
    /\ \E j \in Jobs, i \in DOMAIN db :
          pc[j] \in {"check", "select"} /\ db[i].site_key = SiteKey(j)
    /\ now' = now + TickLength
    /\ UNCHANGED <<db, posture, jobVars, batchVars, envVars, pureVars>>

\* The order in which a site's configuration decays: S1, then S2, then S6
PostureRank(p) == CASE p = "S1" -> 1 [] p = "S2" -> 2 [] p = "S6" -> 3

\* A site changes what it serves, for the worse; only what a site serves
\* while it is being retrieved is ever observed
SiteChange(h, p) ==
    /\ EventLoop
    /\ PostureRank(posture[h]) < PostureRank(p)
    /\ \E j \in Jobs : Scanning(j) /\ site[j][1].hostname = h
    /\ posture' = [posture EXCEPT ![h] = p]
    /\ UNCHANGED <<now, db, jobVars, batchVars, envVars, pureVars>>

\* The steps of runWithConcurrency and of the scans it runs
RunnerStep ==
    \/ \E b \in BatchIds : StartItem(b)
    \/ \E b \in BatchIds : LoopEnd(b)
    \/ \E j \in Jobs : TaskChecked(j)
    \/ \E j \in Jobs : TaskSelected(j)
    \/ \E j \in Jobs : TaskExecuted(j)
    \/ \E j \in Jobs : TaskScanned(j)
    \/ \E j \in Jobs : Settled(j)
    \/ \E b \in BatchIds : Resume(b)
    \/ \E b \in BatchIds : Return(b)

Next ==
    \/ \E j \in 1..load.requests, raw \in load.hosts : Request(j, raw)
    \/ \E j \in Requests : RequestChecked(j)
    \/ \E j \in Requests : RequestSelected(j)
    \/ \E j \in Requests : RequestExecuted(j)
    \/ \E j \in Requests : RequestScanned(j)
    \/ Tick
    \/ \E h \in LiveHosts, p \in Postures : SiteChange(h, p)
    \/ \E b \in 1..load.batches, body \in load.bodies : BatchRequest(b, body)
    \/ \E b \in 1..load.batches, body \in load.bodies : BatchRejected(b, body)
    \/ RunnerStep

Spec == Init /\ [][Next]_vars

(***************************************************************************)
(* The canonicalizer by itself: a host string is canonicalized as the      *)
(* endpoints do it (trim, lower-case, Site.fromSiteString, asSiteKey), and *)
(* the canonical form is canonicalized again                               *)
(***************************************************************************)
\* hostname = host.trim().toLowerCase(); Site.fromSiteString(hostname)
\* .asSiteKey(): the siteKey of an accepted string, nothing for a rejected one
canonicalize(x) ==
    LET parsed == fromSiteString(Normalize(x))
    IN  IF parsed.ok THEN Some(asSiteKey(parsed.site)) ELSE Null

\* The host strings: padding, scheme, host, port and path in every combination
CanonPads    == { <<>>, <<" ">>, <<NoBreakSpace, "\r">> }
CanonSchemes == { <<>>, SchemeHttp, <<"H","T","T","P","S",":","/","/">> }
CanonHosts   == { U_ab, <<"A",".","B">>, Localhost, <<"a","b">>, <<"-","a",".","b">>,
                  <<"1",".","2">>, <<"U+212A",".","b">>, <<"U+0130",".","b">> }
CanonPorts   == { <<>>, <<":","8","0">>, <<":","0","8","0">>, <<":","0">>,
                  <<":","6","5","5","3","6">>, <<":","x">> }
CanonPaths   == { <<>>, <<"/">>, <<"/","P">>, <<"/","p","?","q">>, <<"#","f">>,
                  <<"/","a"," ","b">> }
CanonInputs  ==
    { pad \o scheme \o host \o port \o path \o pad :
        pad \in CanonPads, scheme \in CanonSchemes, host \in CanonHosts,
        port \in CanonPorts, path \in CanonPaths }

InitCanon ==
    /\ InitServer
    /\ canon \in { [raw |-> x, step |-> 0, first |-> Null, second |-> Null] :
                      x \in CanonInputs }
    /\ graded = Null
    /\ InitNoScript

\* The string is canonicalized
CanonOnce ==
    /\ canon.step = 0
    /\ canon' = [canon EXCEPT !.step = 1, !.first = canonicalize(canon.raw)]
    /\ UNCHANGED <<now, db, posture, jobVars, batchVars, envVars, graded, scriptVars>>

\* The canonical form of an accepted string is canonicalized
CanonTwice ==
    /\ canon.step = 1
    /\ canon.first # Null
    /\ canon' = [canon EXCEPT !.step = 2, !.second = canonicalize(canon.first[1])]
    /\ UNCHANGED <<now, db, posture, jobVars, batchVars, envVars, graded, scriptVars>>

NextCanon == CanonOnce \/ CanonTwice

SpecCanon == InitCanon /\ [][NextCanon]_vars

(***************************************************************************)
(* The grader by itself: two scans of the same observations, the first     *)
(* with the default expectations and the second with expectation           *)
(* overrides, start from scenario S1; the outcome of one test after the    *)
(* other is replaced and the reports are drawn up again                    *)
(***************************************************************************)
\* The tests whose outcome varies
VariedTests ==
    { "content-security-policy", "cookies", "strict-transport-security",
      "x-frame-options" }

\* A result of the test that earns a bonus
StrongResult(t) ==
    CASE t = "content-security-policy"   -> "csp-implemented-with-no-unsafe-default-src-none"
      [] t = "cookies"                   -> "cookies-secure-with-httponly-sessions-and-samesite"
      [] t = "strict-transport-security" -> "hsts-preloaded"
      [] OTHER                           -> "x-frame-options-implemented-via-csp"

\* A result of the test that fails it
BadResult(t) ==
    CASE t = "content-security-policy"   -> "csp-implemented-with-unsafe-inline"
      [] t = "cookies"                   -> "cookies-without-secure-flag"
      [] t = "strict-transport-security" -> "hsts-not-implemented"
      [] OTHER                           -> "x-frame-options-not-implemented"

\* A result of the test that fails it badly
WorstResult(t) ==
    CASE t = "content-security-policy"   -> "csp-header-invalid"
      [] t = "cookies"                   -> "cookies-session-without-secure-flag"
      [] t = "strict-transport-security" -> "hsts-header-invalid"
      [] OTHER                           -> "x-frame-options-header-invalid"

\* The results a test can have, each with its score modifier
Outcomes(t) ==
    { <<DefaultExpectation(t), TestsS1[t].scoreModifier>>,
      <<StrongResult(t), 10>>, <<BadResult(t), -20>>, <<WorstResult(t), -50>> }

\* The test result under an expectation override: pass follows the
\* expectation, result and modifier follow the observations
WithExpectation(test, expectation) ==
    [test EXCEPT !.expectation = expectation, !.pass = (test.result = expectation)]

\* The reports of both scans
Regraded(tests1, tests2, touched) ==
    [ tests1 |-> tests1, tests2 |-> tests2, touched |-> touched,
      report1 |-> Report(200, tests1), report2 |-> Report(200, tests2) ]

InitGrader ==
    /\ InitServer
    /\ canon = Null
    /\ graded = Regraded(TestsS1, TestsS1, {})
    /\ InitNoScript

\* The observations give test t the outcome o; the second scan expects e
SetOutcome(t, o, e) ==
    /\ t \notin graded.touched
    /\ graded.report1.scan.error = Null
    /\ LET test == TestResult(t, o[1], o[2])
       IN  graded' = Regraded([graded.tests1 EXCEPT ![t] = test],
                              [graded.tests2 EXCEPT ![t] = WithExpectation(test, e)],
                              graded.touched \cup {t})
    /\ UNCHANGED <<now, db, posture, jobVars, batchVars, envVars, canon, scriptVars>>

\* The retrieval fails: both reports are the short circuit
RetrievalFails ==
    /\ graded.report1.scan.error = Null
    /\ graded' = [graded EXCEPT !.report1 = FailedReport("connection-error"),
                                !.report2 = FailedReport("connection-error")]
    /\ UNCHANGED <<now, db, posture, jobVars, batchVars, envVars, canon, scriptVars>>

NextGrader ==
    \/ \E t \in VariedTests :
          \E o \in Outcomes(t), e \in {DefaultExpectation(t), BadResult(t)} :
              SetOutcome(t, o, e)
    \/ RetrievalFails

SpecGrader == InitGrader /\ [][NextGrader]_vars

(***************************************************************************)
(* Vocabulary of the properties                                            *)
(***************************************************************************)
\* The item of normalizedUrls a batch entry is the scan of
Item(j) == items[BatchOf(j)][ItemOf(j)]

Started(j) == pc[j] # "idle"
SameSite(j, k) == site[j] # Null /\ site[k] # Null /\ SiteKey(j) = SiteKey(k)

\* Neither request had finished when the other arrived
Concurrent(j, k) == Started(j) /\ Started(k) /\ j \notin before[k] /\ k \notin before[j]

ProbesOfKind(j, kind) ==
    Cardinality({i \in DOMAIN probes[j] : probes[j][i].kind = kind})

\* The scanSingleUrl invocations of batch b started and not yet settled
InFlight(b) == {j \in Entries(b) : Started(j) /\ ~Finished(j)}

SummaryFields ==
    { "id", "algorithm_version", "scanned_at", "error", "grade", "score",
      "status_code", "tests_failed", "tests_passed", "tests_quantity" }

\* The summary a response must carry for a persisted row
RowSummary(row) ==
    [ id                |-> row.id,
      algorithm_version |-> row.algorithm_version,
      scanned_at        |-> row.start_time,
      error             |-> row.error,
      grade             |-> row.grade,
      score             |-> row.score,
      status_code       |-> row.status_code,
      tests_failed      |-> row.tests_failed,
      tests_passed      |-> row.tests_passed,
      tests_quantity    |-> row.tests_quantity ]

SummaryOf(response) == [f \in SummaryFields |-> response[f]]

ValidationErrors == {"invalid-hostname", "invalid-hostname-lookup", "invalid-port"}

\* What a finished job handed to its caller
Out(j) == IF IsEntry(j) THEN Entry(j) ELSE Response(j)

(***************************************************************************)
(* C1  Single-flight: of the scan requests for one siteKey at most one has *)
(* a scan of the site under way at any time, and requests that were        *)
(* handled concurrently cause one retrieval in total and all receive the   *)
(* same row (same id and scanned_at).                                      *)
(***************************************************************************)
C1_SingleFlight ==
    \A j, k \in Jobs :
        (j < k /\ SameSite(j, k)) =>
            /\ ~(Scanning(j) /\ Scanning(k))
            /\ (j \in Requests /\ k \in Requests /\ Concurrent(j, k)
                  /\ pc[j] = "done" /\ pc[k] = "done") =>
                  /\ Response(j).id = Response(k).id
                  /\ Response(j).scanned_at = Response(k).scanned_at
                  /\ Len(probes[j]) + Len(probes[k]) = 1

(***************************************************************************)
(* C2  Cooldown.  The second of two requests for one siteKey arrives after *)
(* the first has finished and its database read is answered with the      *)
(* first one's row, which is younger than the cooldown.                    *)
(***************************************************************************)
WithinCooldown(j, k) ==
    /\ j \in before[k]
    /\ SameSite(j, k)
    /\ pc[j] = "done" /\ pc[k] = "done"
    /\ hit[k] # Null /\ hit[k][1].id = scanRow[j][1].id

\* C2 as claimed: the two requests cause at most one retrieval of the site
\* in total, and the second performs no probe.
C2_CooldownOneRetrieval ==
    \A j, k \in Requests :
        WithinCooldown(j, k) =>
            /\ Len(probes[j]) + Len(probes[k]) <= 1
            /\ probes[k] = <<>>

\* C2 as amended: the two requests run executeScan at most once in total, the
\* second request persists nothing and answers with the cached row as its
\* summary, and it still retrieves the site once, for fullDetails.
C2_CooldownOneExecute ==
    \A j, k \in Requests :
        WithinCooldown(j, k) =>
            /\ ProbesOfKind(j, "execute") + ProbesOfKind(k, "execute") <= 1
            /\ ProbesOfKind(k, "execute") = 0
            /\ persisted[k] = {}
            /\ Response(k).id = hit[k][1].id
            /\ ProbesOfKind(k, "fresh") = 1

C2_Witness == \E j, k \in Requests : WithinCooldown(j, k) /\ persisted[j] # {}

(***************************************************************************)
(* C3  Cached-row policy of /scanFullDetails: a request whose database     *)
(* read found a row younger than the cooldown persists no row and its      *)
(* summary fields are that row's; any other request that answers has       *)
(* persisted exactly one row, of its site, and its summary fields are that *)
(* row's.                                                                  *)
(***************************************************************************)
C3_CachedRowPolicy ==
    \A j \in Requests :
        /\ hit[j] # Null => persisted[j] = {}
        /\ Cardinality(persisted[j]) <= 1
        /\ pc[j] = "done" =>
              IF hit[j] # Null
              THEN SummaryOf(Response(j)) = RowSummary(hit[j][1])
              ELSE /\ Cardinality(persisted[j]) = 1
                   /\ \A id \in persisted[j] :
                        /\ db[id].site_key = SiteKey(j)
                        /\ SummaryOf(Response(j)) = RowSummary(db[id])

\* One request answered from the cache and one from a new scan, the cached
\* row differing from what the site serves by then
C3_Witness ==
    \E j, k \in Requests :
        /\ pc[j] = "done" /\ hit[j] = Null
        /\ pc[k] = "done" /\ hit[k] # Null
        /\ Response(k).grade # Response(k).fullDetails.scan.grade

(***************************************************************************)
(* C4  Every successful response and every successful batch entry follows  *)
(* exactly one fresh scan of the site run by that job, after its single    *)
(* database read, whether the row was cached or new; fullDetails.scan and  *)
(* fullDetails.tests are that fresh scan's output.                         *)
(***************************************************************************)
C4_FreshScanAlways ==
    \A j \in Jobs :
        pc[j] = "done" =>
            /\ ProbesOfKind(j, "fresh") = 1
            /\ probes[j][Len(probes[j])].kind = "fresh"
            /\ reads[j] = 1
            /\ LET fresh == ScanOf(probes[j][Len(probes[j])].saw)
                   out   == Out(j)
               IN  /\ out.fullDetails.scan = fresh.scan
                   /\ out.fullDetails.tests = StripTests(fresh.tests)

\* A request answered from the cache whose fullDetails differ from the row,
\* and a request that persisted a new row
C4_Witness ==
    /\ \E j \in Jobs :
          /\ pc[j] = "done" /\ hit[j] # Null
          /\ Response(j).fullDetails.scan.grade # hit[j][1].grade
    /\ \E j \in Jobs : pc[j] = "done" /\ persisted[j] # {}

(***************************************************************************)
(* C5  Batch concurrency bound: at every moment of a batch at most         *)
(* DEFAULT_CONCURRENCY per-URL scans are started and not yet settled.      *)
(***************************************************************************)
C5_ConcurrencyBound ==
    \A b \in BatchIds :
        /\ Cardinality(InFlight(b)) <= DEFAULT_CONCURRENCY
        /\ Cardinality(executing[b]) <= DEFAULT_CONCURRENCY

\* The bound is met while further items wait to be started
C5_Witness ==
    \E b \in BatchIds :
        /\ bpc[b] = "race"
        /\ Cardinality(InFlight(b)) = DEFAULT_CONCURRENCY
        /\ idx[b] <= Len(items[b])

(***************************************************************************)
(* C6  Batch failure isolation: when the handler returns, every entry has  *)
(* been scanned and is reported under its key, and an entry whose scan     *)
(* failed is reported as an object with success = FALSE, error and         *)
(* message.                                                                *)
(***************************************************************************)
C6_FailureIsolation ==
    \A b \in BatchIds :
        bpc[b] = "returned" =>
            \A j \in Entries(b) :
                /\ Finished(j)
                /\ Item(j) \in DOMAIN ReturnedMap(b)
                /\ pc[j] = "thrown" =>
                      /\ ReturnedMap(b)[Item(j)].success = FALSE
                      /\ {"error", "message"} \subseteq DOMAIN ReturnedMap(b)[Item(j)]

(***************************************************************************)
(* C7  Batch dedup: no two entries of one batch that have retrieved a site *)
(* were scanned for the same siteKey.                                      *)
(***************************************************************************)
C7_BatchDedup ==
    \A b \in BatchIds :
        \A j, k \in Entries(b) :
            (j < k /\ probes[j] # <<>> /\ probes[k] # <<>>) => ~SameSite(j, k)

(***************************************************************************)
(* C8  Batch result map: when the handler returns no scan is in flight,    *)
(* the keys of the map are exactly the distinct trimmed, lower-cased       *)
(* submitted urls, and the value under each key is the outcome of the scan *)
(* of that key's url.                                                      *)
(***************************************************************************)
C8_ResultMap ==
    \A b \in BatchIds :
        bpc[b] = "returned" =>
            /\ executing[b] = {}
            /\ InFlight(b) = {}
            /\ DOMAIN ReturnedMap(b) = {Normalize(urls[b][i]) : i \in DOMAIN urls[b]}
            /\ \A j \in Entries(b) :
                  Item(j) \in DOMAIN ReturnedMap(b) => ReturnedMap(b)[Item(j)] = Entry(j)

(***************************************************************************)
(* C9  Batch entry equals single endpoint: for every site, row and fresh   *)
(* scan a job meets, scanWithFullDetails takes the cooldown decision       *)
(* scanOrReturnRecentWithFullDetails takes, and the entry it returns has   *)
(* the fields of the response, with the same values, and success = TRUE    *)
(* besides.                                                                *)
(***************************************************************************)
C9_BatchEqualsSingle ==
    \A j \in Jobs :
        /\ NeedsExecuteBatch(hit[j]) = NeedsExecute(hit[j])
        /\ pc[j] = "done" =>
              LET entry    == BuildEntry(scanRow[j][1], FullScanResult(j), site[j][1])
                  response == BuildResponse(scanRow[j][1], FullScanResult(j), site[j][1])
              IN  entry = [success |-> TRUE] @@ response

\* A batch with an entry answered from a new row and one from a cached row
C9_Witness ==
    \E j, k \in Jobs :
        /\ IsEntry(j) /\ pc[j] = "done" /\ hit[j] = Null
        /\ IsEntry(k) /\ pc[k] = "done" /\ hit[k] # Null

(***************************************************************************)
(* C10  Validation errors leave the state unchanged: a job for which      *)
(* Site.fromSiteString produced no site, or whose site checkSitename       *)
(* rejected, has ended with a validation error; a job that ended with a    *)
(* validation error ended with the one its host string is rejected with    *)
(* and has read no row, persisted no row and retrieved nothing; and the    *)
(* caller receives the error: the handler of a single request throws it,   *)
(* and the map a batch returns holds it under the entry's key.             *)
(***************************************************************************)
Rejection(j) ==
    LET parsed == Parsed[input[j]]
    IN  IF ~parsed.ok THEN Some(parsed.error)
        ELSE IF ~checkSitenameOk(parsed.site) THEN Some("invalid-hostname-lookup")
        ELSE Null

\* The job ended with a validation error
Rejected(j) == pc[j] = "thrown" /\ thrown[j][1].name \in ValidationErrors

\* The job has touched neither the database nor the site
NoEffect(j) ==
    /\ reads[j] = 0
    /\ hit[j] = Null /\ scanRow[j] = Null
    /\ persisted[j] = {}
    /\ probes[j] = <<>>
    /\ \A i \in DOMAIN db : db[i].site_key # Normalize(input[j])

\* The caller of a batch has received the error of the entry: it is in the
\* map the handler returned, under the entry's key.  (Nothing in the handler
\* of a single request catches what it throws.)
Surfaced(j) ==
    (IsEntry(j) /\ bpc[BatchOf(j)] = "returned") =>
        /\ Item(j) \in DOMAIN ReturnedMap(BatchOf(j))
        /\ ReturnedMap(BatchOf(j))[Item(j)].success = FALSE
        /\ ReturnedMap(BatchOf(j))[Item(j)].error = thrown[j][1].name

C10_ValidationNoEffect ==
    \A j \in Jobs :
        /\ (Started(j) /\ site[j] = Null) =>
              /\ pc[j] = "thrown"
              /\ thrown[j][1].name \in {"invalid-hostname", "invalid-port"}
        /\ (site[j] # Null /\ pc[j] # "check" /\ ~checkSitenameOk(site[j][1])) =>
              /\ pc[j] = "thrown"
              /\ thrown[j][1].name = "invalid-hostname-lookup"
        /\ Rejected(j) =>
              /\ Rejection(j) = Some(thrown[j][1].name)
              /\ NoEffect(j)
              /\ Surfaced(j)

\* The strings the caller supplied for the job: the host of the request, or
\* the urls of the batch that the handler folded into the job's item
Supplied(j) ==
    IF IsEntry(j)
    THEN {urls[BatchOf(j)][i] :
             i \in {k \in DOMAIN urls[BatchOf(j)] : Normalized[urls[BatchOf(j)][k]] = Item(j)}}
    ELSE {input[j]}

HasSpace(raw) == \E i \in DOMAIN raw : IsSpace(raw[i])

\* A whitespace character with other characters on both sides of it
HasInnerSpace(raw) ==
    \E i, k, l \in DOMAIN raw :
        i < k /\ k < l /\ ~IsSpace(raw[i]) /\ IsSpace(raw[k]) /\ ~IsSpace(raw[l])

\* The submitted strings with whitespace, and with inner whitespace
WithSpace == {raw \in Submitted : HasSpace(raw)}
WithInnerSpace == {raw \in Submitted : HasInnerSpace(raw)}

(***************************************************************************)
(* C11  Retrieval-failure short-circuit, as claimed: a report with error   *)
(* set has null grade and score and no tests, and a response or entry      *)
(* whose top-level error is set has null grade and score and an empty      *)
(* fullDetails.tests.                                                      *)
(***************************************************************************)
C11_ErrorShortCircuit ==
    \A j \in Jobs :
        pc[j] = "done" =>
            /\ Out(j).fullDetails.scan.error # Null =>
                  /\ Out(j).fullDetails.scan.grade = Null
                  /\ Out(j).fullDetails.scan.score = Null
                  /\ DOMAIN Out(j).fullDetails.tests = {}
            /\ Out(j).error # Null =>
                  /\ Out(j).grade = Null
                  /\ Out(j).score = Null
                  /\ DOMAIN Out(j).fullDetails.tests = {}

\* C11 as amended: the short circuit holds of each scan by itself.  A
\* persisted row with error set has null grade and score, so has the summary
\* of a response with error set, and a fullDetails.scan with error set has
\* null grade and score and comes with an empty fullDetails.tests.
C11_ShortCircuitPerScan ==
    /\ \A i \in DOMAIN db :
          db[i].error # Null => db[i].grade = Null /\ db[i].score = Null
    /\ \A j \in Jobs :
          pc[j] = "done" =>
              /\ Out(j).fullDetails.scan.error # Null =>
                    /\ Out(j).fullDetails.scan.grade = Null
                    /\ Out(j).fullDetails.scan.score = Null
                    /\ DOMAIN Out(j).fullDetails.tests = {}
              /\ Out(j).error # Null =>
                    /\ Out(j).grade = Null
                    /\ Out(j).score = Null

\* A response built from a cached error row and a fresh scan that succeeded,
\* and one whose fresh scan failed
C11_Witness ==
    /\ \E j \in Jobs :
          /\ pc[j] = "done" /\ Out(j).error # Null
          /\ DOMAIN Out(j).fullDetails.tests # {}
    /\ \E j \in Jobs :
          pc[j] = "done" /\ Out(j).fullDetails.scan.error # Null

(***************************************************************************)
(* C12  Path preserved verbatim: the path of the site a job scans and      *)
(* looks up is, character for character, the path of the string the        *)
(* caller supplied.                                                        *)
(***************************************************************************)
C12_PathVerbatim ==
    \A j \in Jobs :
        site[j] # Null =>
            \A raw \in Supplied(j) :
                LET parsed == fromSiteString(trim(raw))
                IN  parsed.ok => site[j][1].path = parsed.site.path

(***************************************************************************)
(* C13  Whitespace rejection, as claimed: a job for a supplied string that *)
(* contains a whitespace character anywhere ends with invalid-hostname     *)
(* and retrieves nothing.                                                  *)
(***************************************************************************)
C13_WhitespaceRejected ==
    \A j \in Jobs :
        Started(j) =>
            \A raw \in Supplied(j) :
                raw \in WithSpace =>
                    /\ pc[j] = "thrown"
                    /\ thrown[j][1].name = "invalid-hostname"
                    /\ probes[j] = <<>>

\* C13 as amended: a supplied string with a whitespace character between
\* two other characters is rejected with invalid-hostname and its job reads
\* and retrieves nothing; leading and trailing whitespace is trimmed by the
\* endpoint and does not cause a rejection.
C13_InnerWhitespaceRejected ==
    \A j \in Jobs :
        Started(j) =>
            \A raw \in Supplied(j) :
                raw \in WithInnerSpace =>
                    /\ pc[j] = "thrown"
                    /\ thrown[j][1].name = "invalid-hostname"
                    /\ site[j] = Null
                    /\ reads[j] = 0
                    /\ probes[j] = <<>>

\* A request with inner whitespace was rejected and one with surrounding
\* whitespace was scanned
C13_Witness ==
    /\ \E j \in Jobs : \E raw \in Supplied(j) : Started(j) /\ raw \in WithInnerSpace
    /\ \E j \in Jobs : \E raw \in Supplied(j) :
          pc[j] = "done" /\ raw \in WithSpace \ WithInnerSpace

(***************************************************************************)
(* C19  Batch size limit: a batch request is processed only when its urls  *)
(* array holds 1 to MAX_BATCH_SIZE strings, so it never starts more than   *)
(* MAX_BATCH_SIZE scans; a rejected body (no urls, an empty array, more    *)
(* than MAX_BATCH_SIZE entries) starts no scan.                            *)
(***************************************************************************)
C19_BatchSizeLimit ==
    \A b \in BatchIds :
        /\ bpc[b] \notin {"none", "rejected"} =>
              /\ Len(urls[b]) >= 1
              /\ Len(urls[b]) <= MAX_BATCH_SIZE
              /\ Len(items[b]) <= MAX_BATCH_SIZE
              /\ Cardinality({j \in Jobs : IsEntry(j) /\ BatchOf(j) = b /\ Started(j)})
                     <= MAX_BATCH_SIZE
        /\ bpc[b] = "rejected" =>
              /\ Len(urls[b]) = 0 \/ Len(urls[b]) > MAX_BATCH_SIZE
              /\ items[b] = <<>>
              /\ executing[b] = {}
              /\ \A j \in Jobs : ~(IsEntry(j) /\ BatchOf(j) = b)
              /\ (\A j \in Jobs : ~Started(j)) => db = SeedDb

\* A batch of exactly MAX_BATCH_SIZE urls was processed to the end
C19_Witness ==
    \E b \in BatchIds : bpc[b] = "returned" /\ Len(urls[b]) = MAX_BATCH_SIZE

\* The grade the threshold table assigns to an optional score
GradeOf(score) == IF score = Null THEN Null ELSE Some(Grade(score[1]))

(***************************************************************************)
(* C18  Test counts: in every persisted row, in the summary of every       *)
(* response and in its fullDetails.scan, the quantity of tests is the sum  *)
(* of the passed and the failed tests, and the grade is the one the        *)
(* threshold table assigns to the score next to it.                        *)
(***************************************************************************)
C18_CountsAndGrade ==
    /\ \A i \in DOMAIN db :
          /\ db[i].tests_quantity = db[i].tests_passed + db[i].tests_failed
          /\ db[i].grade = GradeOf(db[i].score)
    /\ \A j \in Requests :
          pc[j] = "done" =>
              LET r == Response(j)
                  d == r.fullDetails.scan
              IN  /\ r.tests_quantity = r.tests_passed + r.tests_failed
                  /\ r.grade = GradeOf(r.score)
                  /\ d.testsQuantity = d.testsPassed + d.testsFailed
                  /\ d.grade = GradeOf(d.score)

\* A response whose summary and fullDetails count different scans, the fresh
\* one with a failed test
C18_Witness ==
    \E j \in Requests :
        /\ pc[j] = "done"
        /\ Response(j).tests_quantity # Response(j).fullDetails.scan.testsQuantity
        /\ Response(j).fullDetails.scan.testsFailed > 0

(***************************************************************************)
(* C20  scoreDescription is stripped and nothing else: fullDetails.tests   *)
(* of every response and successful batch entry has exactly the test names *)
(* of the fresh scan, no test has a scoreDescription, and every test has   *)
(* every other field of the fresh scan's test, with the same value.        *)
(***************************************************************************)
C20_OnlyScoreDescriptionStripped ==
    \A j \in Jobs :
        pc[j] = "done" =>
            LET fresh == FullScanResult(j).tests
                out   == Out(j).fullDetails.tests
            IN  /\ DOMAIN out = DOMAIN fresh
                /\ \A t \in DOMAIN fresh :
                      /\ "scoreDescription" \notin DOMAIN out[t]
                      /\ DOMAIN out[t] = (DOMAIN fresh[t]) \ {"scoreDescription"}
                      /\ \A f \in DOMAIN out[t] : out[t][f] = fresh[t][f]

\* A response and a batch entry with tests, each of which had a
\* scoreDescription
C20_Witness ==
    /\ \E j \in Requests :
          /\ pc[j] = "done"
          /\ DOMAIN Response(j).fullDetails.tests = TestNames
    /\ \E j \in Jobs :
          /\ IsEntry(j)
          /\ pc[j] = "done"
          /\ DOMAIN Entry(j).fullDetails.tests = TestNames
          /\ \A t \in TestNames :
                "scoreDescription" \in DOMAIN FullScanResult(j).tests[t]

(***************************************************************************)
(* C14  Canonicalization idempotence: for every accepted host string,      *)
(* canonicalizing its canonical form (trim, lower-case, parse, print)      *)
(* accepts it and gives the same canonical form.                           *)
(***************************************************************************)
C14_CanonIdempotent ==
    canon.step = 2 =>
        /\ canon.second # Null
        /\ canon.second = canon.first

\* An accepted string with padding, a scheme, upper case, a port and a path
\* was canonicalized twice
C14_Witness ==
    /\ canon.step = 2
    /\ HasSpace(canon.raw)
    /\ Len(canon.first[1]) + Len(SchemeHttps) + 2 < Len(canon.raw)
    /\ canon.raw # toLowerCase(canon.raw)
    /\ \E i \in DOMAIN canon.first[1] : canon.first[1][i] = ":"
    /\ \E i \in DOMAIN canon.first[1] : canon.first[1][i] = "/"

\* The 13 letters, best first, and the least score of each but the last
GradeLetters == <<"A+", "A", "A-", "B+", "B", "B-", "C+", "C", "C-", "D+", "D", "D-", "F">>
GradeFloors  == <<100, 90, 85, 80, 70, 65, 60, 50, 45, 40, 30, 25>>

\* The place of a letter among the 13: 1 is best
GradeRank(g) == CHOOSE i \in DOMAIN GradeLetters : GradeLetters[i] = g

\* The letter of the threshold table: the first whose floor the score reaches
TableGrade(score) ==
    GradeLetters[1 + Cardinality({i \in DOMAIN GradeFloors : score < GradeFloors[i]})]

\* 100 plus the modifiers of all tests, before clamping
RawScore(tests) == 100 + SumModifiers(tests, DOMAIN tests)

GradedReports == {graded.report1, graded.report2}
PassedIn(tests) == {t \in DOMAIN tests : tests[t].pass}

(***************************************************************************)
(* C15  Clamp: the score of every report is 100 plus the modifiers of its  *)
(* tests, clamped into [0, 135], and its grade is the one of the 13        *)
(* letters the threshold table gives for the score; a report of a failed   *)
(* retrieval has neither.                                                  *)
(***************************************************************************)
C15_ClampAndLetters ==
    \A r \in GradedReports :
        IF r.scan.error # Null
        THEN r.scan.score = Null /\ r.scan.grade = Null
        ELSE LET score == r.scan.score[1]
                 raw   == RawScore(r.tests)
             IN  /\ score >= 0 /\ score <= 135
                 /\ score = (IF raw < 0 THEN 0 ELSE IF raw > 135 THEN 135 ELSE raw)
                 /\ r.scan.grade[1] \in Range(GradeLetters)
                 /\ r.scan.grade[1] = TableGrade(score)

\* The sum of a report exceeds 135 and is clamped
C15_Witness ==
    /\ graded.report1.scan.error = Null
    /\ RawScore(graded.tests1) > 135
    /\ graded.report1.scan.score = Some(135)

(***************************************************************************)
(* C16  Grade monotonicity: of two scans over the same observations, one   *)
(* whose passing tests are a strict superset of the other's has a score    *)
(* that is at least the other's and a grade that is no worse.              *)
(***************************************************************************)
C16_GradeMonotone ==
    graded.report1.scan.error = Null =>
        \A a, b \in {<<graded.tests1, graded.report1>>, <<graded.tests2, graded.report2>>} :
            (PassedIn(b[1]) \subseteq PassedIn(a[1]) /\ PassedIn(b[1]) # PassedIn(a[1])) =>
                /\ a[2].scan.score[1] >= b[2].scan.score[1]
                /\ GradeRank(a[2].scan.grade[1]) <= GradeRank(b[2].scan.grade[1])

\* The second scan passes strictly more tests than the first, one of them
\* with a result that costs points
C16_Witness ==
    /\ graded.report1.scan.error = Null
    /\ PassedIn(graded.tests1) \subseteq PassedIn(graded.tests2)
    /\ \E t \in PassedIn(graded.tests2) \ PassedIn(graded.tests1) :
          graded.tests2[t].scoreModifier < 0

(***************************************************************************)
(* The entrypoint script of the container: it waits for PostgreSQL, runs   *)
(* the migrations and replaces itself by the application command           *)
(***************************************************************************)
\* The loop of the script has no bound: boot.waits counts the sleeps up to
\* MaxWaits and stays there
MaxWaits == 5

\* PostgreSQL: not running, starting up (it rejects connections), accepting
\* connections
PgStates == {"down", "starting", "up"}

\* The arguments of the script: the application command
Commands == { <<"npm", "start">>, <<"node", "index.js">>, <<>> }

\* The exit status of pg_isready -h postgres -U postgres
pg_isready(pg) ==
    CASE pg = "up" -> 0 [] pg = "starting" -> 1 [] OTHER -> 2

\* The exit status of npm run migrate: the migrations need the database and
\* can fail by themselves
npm_run_migrate(pg, sound) == IF pg = "up" /\ sound THEN 0 ELSE 1

\* Mutant: the script lacks set -e
SetE_Ignored(status, next) == next

\* set -e: the script exits when a command fails, and goes on otherwise
SetE(status, next) == IF status # 0 THEN "exited" ELSE next

bootOthers == <<now, db, posture, jobVars, batchVars, envVars, canon, graded, line, sh>>

InitEntrypoint ==
    /\ InitServer
    /\ canon = Null
    /\ graded = Null
    /\ line = Null
    /\ sh = Null
    /\ boot \in { [ pc |-> "until", pg |-> p, cmd |-> c, waits |-> 0,
                    ready |-> FALSE, migrate |-> "none", app |-> Null,
                    status |-> Null ] : p \in PgStates, c \in Commands }

\* until pg_isready -h postgres -U postgres; do
Until ==
    /\ boot.pc = "until"
    /\ IF pg_isready(boot.pg) = 0
       THEN boot' = [boot EXCEPT !.pc = "migrate", !.ready = TRUE]
       ELSE boot' = [boot EXCEPT !.pc = "sleep"]
    /\ UNCHANGED bootOthers

\* sleep 2; done
Sleep ==
    /\ boot.pc = "sleep"
    /\ boot' = [boot EXCEPT !.pc = "until",
                            !.waits = IF @ < MaxWaits THEN @ + 1 ELSE @]
    /\ UNCHANGED bootOthers

\* npm run migrate, under set -e
Migrate(sound) ==
    /\ boot.pc = "migrate"
    /\ LET status == npm_run_migrate(boot.pg, sound)
           next   == SetE(status, "exec")
       IN  boot' = [boot EXCEPT !.pc = next,
                                !.migrate = IF status = 0 THEN "ok" ELSE "failed",
                                !.status = IF next = "exited" THEN Some(status) ELSE Null]
    /\ UNCHANGED bootOthers

\* exec "$@": the command replaces the script; without a command the script
\* ends
Exec ==
    /\ boot.pc = "exec"
    /\ IF boot.cmd = <<>>
       THEN boot' = [boot EXCEPT !.pc = "exited", !.status = Some(0)]
       ELSE boot' = [boot EXCEPT !.pc = "app", !.app = Some(boot.cmd)]
    /\ UNCHANGED bootOthers

\* PostgreSQL starts up, accepts connections or goes down, while the script
\* still depends on it
PgChange(p) ==
    /\ boot.pc \in {"until", "sleep", "migrate"}
    /\ \/ boot.pg = "down" /\ p = "starting"
       \/ boot.pg = "starting" /\ p = "up"
       \/ boot.pg # "down" /\ p = "down"
    /\ boot' = [boot EXCEPT !.pg = p]
    /\ UNCHANGED bootOthers

NextEntrypoint ==
    \/ Until
    \/ Sleep
    \/ \E sound \in BOOLEAN : Migrate(sound)
    \/ Exec
    \/ \E p \in PgStates : PgChange(p)

SpecEntrypoint == InitEntrypoint /\ [][NextEntrypoint]_vars

(***************************************************************************)
(* C21  Container start-up ordering: the application command is started    *)
(* only after pg_isready has reported PostgreSQL ready and after the       *)
(* migrations have run to successful completion; as long as pg_isready has *)
(* not reported it ready the script is in its waiting loop and has neither *)
(* run the migrations nor exited; once the migration has failed the script *)
(* has exited with a failure status and the application is not started.    *)
(***************************************************************************)
C21_StartupOrdering ==
    /\ boot.app # Null => boot.ready /\ boot.migrate = "ok"
    /\ ~boot.ready =>
          /\ boot.pc \in {"until", "sleep"}
          /\ boot.migrate = "none"
          /\ boot.status = Null
          /\ boot.app = Null
    /\ boot.migrate = "failed" =>
          /\ boot.pc = "exited"
          /\ boot.status # Null /\ boot.status # Some(0)
          /\ boot.app = Null

\* The script slept, PostgreSQL became ready, the migrations succeeded and
\* the application was started
C21_Witness ==
    /\ boot.app # Null
    /\ boot.waits >= 1
    /\ boot.migrate = "ok"

(***************************************************************************)
(* concurrent-scan.sh: parse_url and the loop of run_scans that reads the  *)
(* input file.  Strings are sequences of characters.  xargs and echo are   *)
(* those of GNU findutils 4.9 and coreutils 9.1, in a UTF-8 locale.        *)
(***************************************************************************)
\* DEFAULT_PORT=443
DEFAULT_PORT == <<"4", "4", "3">>

\* isspace in the C locale, which xargs applies to the bytes of its input
IsCSpace(c) == c \in { " ", "\t", "\n", "U+000B", "\f", "\r" }

\* [[:space:]] in a regular expression of bash, in a UTF-8 locale: the
\* class "space" of the C library, which leaves out the no-break spaces
IsRegexSpace(c) ==
    \/ IsCSpace(c)
    \/ c \in { "U+1680", "U+2000", "U+2001", "U+2002", "U+2003", "U+2004",
                "U+2005", "U+2006", "U+2008", "U+2009", "U+200A", "U+2028",
                "U+2029", "U+205F", "U+3000" }

\* What echo --help prints (GNU coreutils 9.1)
EchoHelp ==
    <<"U","s","a","g","e",":"," ","e","c","h","o"," ","[","S","H","O","R",
      "T","-","O","P","T","I","O","N","]",".",".","."," ","[","S","T","R",
      "I","N","G","]",".",".",".","\n"," "," ","o","r",":"," "," ","e","c",
      "h","o"," ","L","O","N","G","-","O","P","T","I","O","N","\n","E","c",
      "h","o"," ","t","h","e"," ","S","T","R","I","N","G","(","s",")"," ",
      "t","o"," ","s","t","a","n","d","a","r","d"," ","o","u","t","p","u",
      "t",".","\n","\n"," "," ","-","n"," "," "," "," "," "," "," "," "," ",
      " "," "," "," ","d","o"," ","n","o","t"," ","o","u","t","p","u","t",
      " ","t","h","e"," ","t","r","a","i","l","i","n","g"," ","n","e","w",
      "l","i","n","e","\n"," "," ","-","e"," "," "," "," "," "," "," "," ",
      " "," "," "," "," ","e","n","a","b","l","e"," ","i","n","t","e","r",
      "p","r","e","t","a","t","i","o","n"," ","o","f"," ","b","a","c","k",
      "s","l","a","s","h"," ","e","s","c","a","p","e","s","\n"," "," ","-",
      "E"," "," "," "," "," "," "," "," "," "," "," "," "," ","d","i","s",
      "a","b","l","e"," ","i","n","t","e","r","p","r","e","t","a","t","i",
      "o","n"," ","o","f"," ","b","a","c","k","s","l","a","s","h"," ","e",
      "s","c","a","p","e","s"," ","(","d","e","f","a","u","l","t",")","\n",
      " "," "," "," "," "," ","-","-","h","e","l","p"," "," "," "," "," ",
      " "," "," ","d","i","s","p","l","a","y"," ","t","h","i","s"," ","h",
      "e","l","p"," ","a","n","d"," ","e","x","i","t","\n"," "," "," "," ",
      " "," ","-","-","v","e","r","s","i","o","n"," "," "," "," "," ","o",
      "u","t","p","u","t"," ","v","e","r","s","i","o","n"," ","i","n","f",
      "o","r","m","a","t","i","o","n"," ","a","n","d"," ","e","x","i","t",
      "\n","\n","I","f"," ","-","e"," ","i","s"," ","i","n"," ","e","f","f",
      "e","c","t",","," ","t","h","e"," ","f","o","l","l","o","w","i","n",
      "g"," ","s","e","q","u","e","n","c","e","s"," ","a","r","e"," ","r",
      "e","c","o","g","n","i","z","e","d",":","\n","\n"," "," ","\\","\\",
      " "," "," "," "," "," ","b","a","c","k","s","l","a","s","h","\n"," ",
      " ","\\","a"," "," "," "," "," "," ","a","l","e","r","t"," ","(","B",
      "E","L",")","\n"," "," ","\\","b"," "," "," "," "," "," ","b","a","c",
      "k","s","p","a","c","e","\n"," "," ","\\","c"," "," "," "," "," "," ",
      "p","r","o","d","u","c","e"," ","n","o"," ","f","u","r","t","h","e",
      "r"," ","o","u","t","p","u","t","\n"," "," ","\\","e"," "," "," "," ",
      " "," ","e","s","c","a","p","e","\n"," "," ","\\","f"," "," "," "," ",
      " "," ","f","o","r","m"," ","f","e","e","d","\n"," "," ","\\","n"," ",
      " "," "," "," "," ","n","e","w"," ","l","i","n","e","\n"," "," ","\\",
      "r"," "," "," "," "," "," ","c","a","r","r","i","a","g","e"," ","r",
      "e","t","u","r","n","\n"," "," ","\\","t"," "," "," "," "," "," ","h",
      "o","r","i","z","o","n","t","a","l"," ","t","a","b","\n"," "," ","\\",
      "v"," "," "," "," "," "," ","v","e","r","t","i","c","a","l"," ","t",
      "a","b","\n"," "," ","\\","0","N","N","N"," "," "," ","b","y","t","e",
      " ","w","i","t","h"," ","o","c","t","a","l"," ","v","a","l","u","e",
      " ","N","N","N"," ","(","1"," ","t","o"," ","3"," ","d","i","g","i",
      "t","s",")","\n"," "," ","\\","x","H","H"," "," "," "," ","b","y","t",
      "e"," ","w","i","t","h"," ","h","e","x","a","d","e","c","i","m","a",
      "l"," ","v","a","l","u","e"," ","H","H"," ","(","1"," ","t","o"," ",
      "2"," ","d","i","g","i","t","s",")","\n","\n","N","O","T","E",":"," ",
      "y","o","u","r"," ","s","h","e","l","l"," ","m","a","y"," ","h","a",
      "v","e"," ","i","t","s"," ","o","w","n"," ","v","e","r","s","i","o",
      "n"," ","o","f"," ","e","c","h","o",","," ","w","h","i","c","h"," ",
      "u","s","u","a","l","l","y"," ","s","u","p","e","r","s","e","d","e",
      "s","\n","t","h","e"," ","v","e","r","s","i","o","n"," ","d","e","s",
      "c","r","i","b","e","d"," ","h","e","r","e","."," "," ","P","l","e",
      "a","s","e"," ","r","e","f","e","r"," ","t","o"," ","y","o","u","r",
      " ","s","h","e","l","l","'","s"," ","d","o","c","u","m","e","n","t",
      "a","t","i","o","n","\n","f","o","r"," ","d","e","t","a","i","l","s",
      " ","a","b","o","u","t"," ","t","h","e"," ","o","p","t","i","o","n",
      "s"," ","i","t"," ","s","u","p","p","o","r","t","s",".","\n","\n","N",
      "O","T","E",":"," ","p","r","i","n","t","f","(","1",")"," ","i","s",
      " ","a"," ","p","r","e","f","e","r","r","e","d"," ","a","l","t","e",
      "r","n","a","t","i","v","e",",","\n","w","h","i","c","h"," ","d","o",
      "e","s"," ","n","o","t"," ","h","a","v","e"," ","i","s","s","u","e",
      "s"," ","o","u","t","p","u","t","t","i","n","g"," ","o","p","t","i",
      "o","n","-","l","i","k","e"," ","s","t","r","i","n","g","s",".","\n",
      "\n","G","N","U"," ","c","o","r","e","u","t","i","l","s"," ","o","n",
      "l","i","n","e"," ","h","e","l","p",":"," ","<","h","t","t","p","s",
      ":","/","/","w","w","w",".","g","n","u",".","o","r","g","/","s","o",
      "f","t","w","a","r","e","/","c","o","r","e","u","t","i","l","s","/",
      ">","\n","R","e","p","o","r","t"," ","a","n","y"," ","t","r","a","n",
      "s","l","a","t","i","o","n"," ","b","u","g","s"," ","t","o"," ","<",
      "h","t","t","p","s",":","/","/","t","r","a","n","s","l","a","t","i",
      "o","n","p","r","o","j","e","c","t",".","o","r","g","/","t","e","a",
      "m","/",">","\n","F","u","l","l"," ","d","o","c","u","m","e","n","t",
      "a","t","i","o","n"," ","<","h","t","t","p","s",":","/","/","w","w",
      "w",".","g","n","u",".","o","r","g","/","s","o","f","t","w","a","r",
      "e","/","c","o","r","e","u","t","i","l","s","/","e","c","h","o",">",
      "\n","o","r"," ","a","v","a","i","l","a","b","l","e"," ","l","o","c",
      "a","l","l","y"," ","v","i","a",":"," ","i","n","f","o"," ","'","(",
      "c","o","r","e","u","t","i","l","s",")"," ","e","c","h","o"," ","i",
      "n","v","o","c","a","t","i","o","n","'">>

\* What echo --version prints (GNU coreutils 9.1)
EchoVersion ==
    <<"e","c","h","o"," ","(","G","N","U"," ","c","o","r","e","u","t","i",
      "l","s",")"," ","9",".","1","\n","C","o","p","y","r","i","g","h","t",
      " ","(","C",")"," ","2","0","2","2"," ","F","r","e","e"," ","S","o",
      "f","t","w","a","r","e"," ","F","o","u","n","d","a","t","i","o","n",
      ","," ","I","n","c",".","\n","L","i","c","e","n","s","e"," ","G","P",
      "L","v","3","+",":"," ","G","N","U"," ","G","P","L"," ","v","e","r",
      "s","i","o","n"," ","3"," ","o","r"," ","l","a","t","e","r"," ","<",
      "h","t","t","p","s",":","/","/","g","n","u",".","o","r","g","/","l",
      "i","c","e","n","s","e","s","/","g","p","l",".","h","t","m","l",">",
      ".","\n","T","h","i","s"," ","i","s"," ","f","r","e","e"," ","s","o",
      "f","t","w","a","r","e",":"," ","y","o","u"," ","a","r","e"," ","f",
      "r","e","e"," ","t","o"," ","c","h","a","n","g","e"," ","a","n","d",
      " ","r","e","d","i","s","t","r","i","b","u","t","e"," ","i","t",".",
      "\n","T","h","e","r","e"," ","i","s"," ","N","O"," ","W","A","R","R",
      "A","N","T","Y",","," ","t","o"," ","t","h","e"," ","e","x","t","e",
      "n","t"," ","p","e","r","m","i","t","t","e","d"," ","b","y"," ","l",
      "a","w",".","\n","\n","W","r","i","t","t","e","n"," ","b","y"," ","B",
      "r","i","a","n"," ","F","o","x"," ","a","n","d"," ","C","h","e","t",
      " ","R","a","m","e","y",".">>

\* One character read by xargs (read_line).  Before a word it skips isspace
\* characters; a blank, a tab or a newline ends the word; a backslash takes
\* the next character as it is; a quote takes everything up to the same quote
\* and a newline before that quote is an error, after which xargs reads no more
xargs_step(p, c) ==
    IF p.err THEN p
    ELSE IF p.st = "backslash"
    THEN [ p EXCEPT !.st = "norm", !.word = Append(@, c) ]
    ELSE IF p.st = "quote"
    THEN IF c = "\n" THEN [ p EXCEPT !.err = TRUE ]
         ELSE IF c = p.quotc THEN [ p EXCEPT !.st = "norm" ]
         ELSE [ p EXCEPT !.word = Append(@, c) ]
    ELSE IF p.st = "space" /\ IsCSpace(c) THEN p
    ELSE IF c \in { " ", "\t", "\n" }
    THEN [ p EXCEPT !.st = "space", !.word = <<>>, !.args = Append(@, p.word) ]
    ELSE IF c = "\\" THEN [ p EXCEPT !.st = "backslash" ]
    ELSE IF c \in { "'", "\"" } THEN [ p EXCEPT !.st = "quote", !.quotc = c ]
    ELSE [ p EXCEPT !.st = "norm", !.word = Append(@, c) ]

\* xargs after it has read s[lo..hi], when it was in p before
RECURSIVE xargs_read(_, _, _, _)
xargs_read(p, s, lo, hi) ==
    IF lo > hi THEN p
    ELSE IF lo = hi THEN xargs_step(p, s[lo])
    ELSE LET mid  == (lo + hi) \div 2
             left == xargs_read(p, s, lo, mid)
         IN  IF left.err THEN left ELSE xargs_read(left, s, mid + 1, hi)

\* The arguments xargs gives to echo for the text s: the words read up to the
\* end of the input or up to an unmatched quote
xargs_args(s) ==
    LET end == xargs_read([ args |-> <<>>, word |-> <<>>, st |-> "space",
                            quotc |-> "'", err |-> FALSE ], s, 1, Len(s))
    IN  IF ~end.err /\ end.word # <<>> THEN Append(end.args, end.word)
        ELSE end.args

HexChars == DigitChars \o <<"a", "b", "c", "d", "e", "f">>
HexVal(c) == (CHOOSE i \in DOMAIN HexChars : HexChars[i] = Head(tr_lower(<<c>>))) - 1
IsHex(c) == Head(tr_lower(<<c>>)) \in Range(HexChars)
IsOctal(c) == c \in { "0", "1", "2", "3", "4", "5", "6", "7" }

\* The byte a numeric escape of echo -e stands for, as $( ) keeps it: the
\* null byte is dropped.  Escapes for bytes above 127 are not among the inputs.
EchoByte(v) == IF v % 256 = 0 THEN <<>> ELSE <<Ascii[(v % 256) + 1]>>

\* One character of the text echo -e prints, outside an escape
echo_char(p, c) ==
    IF c = "\\" THEN [ p EXCEPT !.st = "bs" ]
    ELSE [ p EXCEPT !.st = "norm", !.out = Append(@, c) ]

\* One character of the text echo -e prints
echo_step(p, c) ==
    IF p.st = "stop" THEN p
    ELSE IF p.st = "norm" THEN echo_char(p, c)
    ELSE IF p.st = "bs"
    THEN CASE c = "a"  -> [ p EXCEPT !.st = "norm", !.out = Append(@, "U+0007") ]
           [] c = "b"  -> [ p EXCEPT !.st = "norm", !.out = Append(@, "U+0008") ]
           [] c = "c"  -> [ p EXCEPT !.st = "stop" ]
           [] c = "e"  -> [ p EXCEPT !.st = "norm", !.out = Append(@, "U+001B") ]
           [] c = "f"  -> [ p EXCEPT !.st = "norm", !.out = Append(@, "\f") ]
           [] c = "n"  -> [ p EXCEPT !.st = "norm", !.out = Append(@, "\n") ]
           [] c = "r"  -> [ p EXCEPT !.st = "norm", !.out = Append(@, "\r") ]
           [] c = "t"  -> [ p EXCEPT !.st = "norm", !.out = Append(@, "\t") ]
           [] c = "v"  -> [ p EXCEPT !.st = "norm", !.out = Append(@, "U+000B") ]
           [] c = "\\" -> [ p EXCEPT !.st = "norm", !.out = Append(@, "\\") ]
           [] c = "x"  -> [ p EXCEPT !.st = "hex", !.val = 0, !.left = 2 ]
           [] c = "0"  -> [ p EXCEPT !.st = "oct", !.val = 0, !.left = 3 ]
           [] IsOctal(c) /\ c # "0" ->
                          [ p EXCEPT !.st = "oct", !.val = DigitVal(c), !.left = 2 ]
           [] OTHER    -> [ p EXCEPT !.st = "norm", !.out = @ \o <<"\\", c>> ]
    ELSE IF p.st = "hex"
    THEN IF IsHex(c)
         THEN IF p.left = 1
              THEN [ p EXCEPT !.st = "norm", !.out = @ \o EchoByte(p.val * 16 + HexVal(c)) ]
              ELSE [ p EXCEPT !.val = HexVal(c), !.left = 1 ]
         ELSE echo_char([ p EXCEPT !.out = @ \o (IF p.left = 2 THEN <<"\\", "x">>
                                                  ELSE EchoByte(p.val)) ], c)
    ELSE IF IsOctal(c)
         THEN IF p.left = 1
              THEN [ p EXCEPT !.st = "norm", !.out = @ \o EchoByte(p.val * 8 + DigitVal(c)) ]
              ELSE [ p EXCEPT !.val = p.val * 8 + DigitVal(c), !.left = @ - 1 ]
         ELSE echo_char([ p EXCEPT !.out = @ \o EchoByte(p.val) ], c)

\* echo -e after it has printed s[lo..hi], when it was in p before
RECURSIVE echo_print(_, _, _, _)
echo_print(p, s, lo, hi) ==
    IF lo > hi THEN p
    ELSE IF lo = hi THEN echo_step(p, s[lo])
    ELSE LET mid  == (lo + hi) \div 2
             left == echo_print(p, s, lo, mid)
         IN  IF left.st = "stop" THEN left ELSE echo_print(left, s, mid + 1, hi)

\* What echo -e prints for the text s: the escapes \a \b \c \e \f \n \r \t \v
\* \\ \0NNN \NNN \xHH are replaced, \c ends the output, and any other
\* backslash is printed as it is
\* What echo -e prints at the end of the text, when it is in end: an escape
\* that was begun is printed as far as it goes
echo_end(end) ==
    CASE end.st = "bs" -> Append(end.out, "\\")
      [] end.st = "hex" -> end.out \o (IF end.left = 2 THEN <<"\\", "x">>
                                        ELSE EchoByte(end.val))
      [] end.st = "oct" -> end.out \o EchoByte(end.val)
      [] OTHER -> end.out

echo_escapes(s) ==
    echo_end(echo_print([ out |-> <<>>, st |-> "norm", val |-> 0, left |-> 0 ],
                        s, 1, Len(s)))

\* An argument that echo, the command and the builtin of bash alike, takes
\* for options: a dash and then letters n, e, E only
IsEchoOption(w) ==
    Len(w) >= 2 /\ w[1] = "-" /\ \A i \in 2..Len(w) : w[i] \in { "n", "e", "E" }

\* echo "$word" | ...: what the builtin echo of bash writes to the pipe for
\* its one argument: the argument and a newline, unless the argument is
\* taken for options, of which n leaves the newline out
bash_echo(word) ==
    IF IsEchoOption(word)
    THEN (IF "n" \in Range(word) THEN <<>> ELSE <<"\n">>)
    ELSE Append(word, "\n")

\* What /bin/echo prints for the arguments args.  Leading arguments made of
\* -n, -e, -E are options and the last of e and E decides about escapes; a
\* sole --help or --version prints the help or version text; otherwise the
\* arguments are printed with single blanks between them.
echo(args) ==
    LET first == CHOOSE k \in 1..(Len(args) + 1) :
                    /\ \A i \in 1..(k - 1) : IsEchoOption(args[i])
                    /\ k <= Len(args) => ~IsEchoOption(args[k])
        opts  == Concat(SubSeq(args, 1, first - 1))
        eE    == { i \in 1..Len(opts) : opts[i] \in { "e", "E" } }
        do_v9 == eE # {} /\ opts[CHOOSE i \in eE : \A j \in eE : j <= i] = "e"
        text  == Concat([ n \in 1..(Len(args) - first + 1) |->
                            IF n = 1 THEN args[first]
                            ELSE <<" ">> \o args[first + n - 1] ])
    IN  IF args = << <<"-", "-", "h", "e", "l", "p">> >> THEN EchoHelp
        ELSE IF args = << <<"-", "-", "v", "e", "r", "s", "i", "o", "n">> >> THEN EchoVersion
        ELSE IF do_v9 THEN echo_escapes(text)
        ELSE text

\* $( ): the output of the command without the newlines at its end
command_substitution(out) ==
    LET keep == { i \in 1..Len(out) : out[i] # "\n" }
        last == IF keep = {} THEN 0 ELSE CHOOSE i \in keep : \A j \in keep : j <= i
    IN  SubSeq(out, 1, last)

\* url="$(echo "$url" | xargs)": the builtin echo writes the line, xargs runs
\* /bin/echo with the words it reads, and $( ) drops the newlines at the end
\* of what that prints
xargs_echo(s) == command_substitution(echo(xargs_args(bash_echo(s))))

\* hostname="$(echo "$hostname" | tr '[:upper:]' '[:lower:]')": the builtin
\* echo writes the hostname, tr lowers the letters, and $( ) drops the
\* newlines at the end
lower_hostname(hostname) == command_substitution(tr_lower(bash_echo(hostname)))

\* ${url#prefix}
RemovePrefix(s, p) == IF HasPrefix(s, p) THEN SubSeq(s, Len(p) + 1, Len(s)) ELSE s

\* [[ "$port" =~ ^[0-9]+$ ]]
IsNumeric(s) == s # <<>> /\ \A i \in 1..Len(s) : IsDigit(s[i])

\* Mutant: the port is kept whatever it is
PortOrDefault_Kept(port) == port

\* if ! [[ "$port" =~ ^[0-9]+$ ]]; then port="$DEFAULT_PORT"
PortOrDefault(port) == IF IsNumeric(port) THEN port ELSE DEFAULT_PORT

\* parse_url after its first command, with the trimmed url: what the
\* function writes to standard output (the warnings go to standard error)
parse_trimmed(url) ==
    LET comment  == \E k \in 1..Len(url) :
                        url[k] = "#" /\ \A i \in 1..(k - 1) : IsRegexSpace(url[i])
        noScheme == RemovePrefix(RemovePrefix(url, SchemeHttp), SchemeHttps)
        noPath   == SubSeq(noScheme, 1, FirstOf(noScheme, {"/"}) - 1)
        colons   == { i \in 1..Len(noPath) : noPath[i] = ":" }
        last     == CHOOSE i \in colons : \A j \in colons : j <= i
        hostname == lower_hostname(IF colons # {} THEN SubSeq(noPath, 1, last - 1)
                                   ELSE noPath)
        port     == IF colons # {}
                    THEN PortOrDefault(SubSeq(noPath, last + 1, Len(noPath)))
                    ELSE DEFAULT_PORT
    IN  IF url = <<>> \/ comment THEN <<>>
        ELSE IF hostname = <<>> \/ "." \notin Range(hostname) THEN <<>>
        ELSE hostname \o <<":">> \o port

\* parse_url: local url="$1", the trimming, and the rest
parse_url(arg) == parse_trimmed(xargs_echo(arg))

\* The lines of the input file.  Lines in the documented formats: padding,
\* scheme, host, port and path in every combination
UrlLines ==
    { [ raw |-> pad \o scheme \o host \o port \o path \o pad, kind |-> "url",
        host |-> host, port |-> port ] :
        pad \in { <<>>, <<" ">> },
        scheme \in { <<>>, SchemeHttp, SchemeHttps },
        host \in { U_ab, <<"A", ".", "b">>, <<"x", "-", "1", ".", "Y", ".", "z">>,
                   Localhost, <<"a", "b">> },
        port \in { <<>>, <<":", "8", "4", "4", "3">>, <<":", "8", "0">>, <<":", "0">>,
                   <<":">>, <<":", "x">>, <<":", "8", "a">> },
        path \in { <<>>, <<"/">>, <<"/", "p">>, <<"/", "P", ":", "9", "/", "q", ".", "r">>,
                   <<"/", "a", " ", "b">>, <<"/", "p", "?", "q", "#", "f">> } }

\* Empty lines, comment lines, and lines in none of the documented formats
OtherLines ==
    { [ raw |-> r, kind |-> "blank", host |-> <<>>, port |-> <<>> ] :
        r \in { <<>>, <<" ">>, <<" ", "\t">> } }
    \cup
    { [ raw |-> r, kind |-> "comment", host |-> <<>>, port |-> <<>> ] :
        r \in { <<"#">>, <<"#", " ", "a", ".", "b">>, <<" ", "#", "c">>,
                <<"#", "a", ".", "b", ":", "8", "0">> } }
    \cup
    { [ raw |-> r, kind |-> "other", host |-> <<>>, port |-> <<>> ] :
        r \in { SchemeHttps \o <<"#", "a", ".", "b">>,
                SchemeHttps \o <<" ", "a", ".", "b">>,
                <<"f", "t", "p", ":", "/", "/", "a", ".", "b">>,
                <<"H", "T", "T", "P", "S", ":", "/", "/", "a", ".", "b">>,
                <<"a", ".", "b", " ", "c">>,
                <<"-", "n", " ", "a", ".", "b">>, <<"-", "n">>,
                <<"-", "n", "e", " ", "-", "E", " ", "a", ".", "B", ":", "8", "0">>,
                <<"-", " ", "a", ".", "b">>, <<"a", ".", "b", " ", "-", "n">>,
                <<"-", "-", "h", "e", "l", "p">>,
                <<"-", "-", "v", "e", "r", "s", "i", "o", "n">>,
                <<"-", "-", "h", "e", "l", "p", " ", "a", ".", "b">>,
                <<"\r", "a", ".", "b">>, <<"a", ".", "b", "\r">>,
                <<"a", ".", "b", "\t", "\r", "c">>, <<"\r">>,
                <<"U+000B", "a", ".", "b">>, <<"a", ".", "b", "\f">>,
                <<"U+3000", "#", "x", ".", "y">>, <<NoBreakSpace, "#", "x", ".", "y">>,
                <<"U+3000", "a", ".", "b">>,
                <<"É", ".", "B">>, <<"U+212A", ".", "b">>,
                <<"'", "A", ".", "b", "'">>, <<"\"", "a", ".", "b", "\"", ":", "8", "0">>,
                <<"a", ".", "b", "'">>, <<"a", "\\", " ", "b", ".", "c">>,
                <<"-", "e", " ", "a", "\\", "\\", "t", "b", ".", "c">>,
                <<"-", "e", " ", "a", ".", "b", "\\", "\\", "n", ":", "8", "0">>,
                <<"-", "e", " ", "A", ".", "B", "\\", "\\", "n", "\\", "\\", "n", ":", "8", "4", "4", "3">>,
                <<"-", "e", " ", "a", "\\", "\\", "n", ".", "b", ":", "8", "0">>,
                <<"-", "e", " ", ".", "\\", "\\", "n", ":", "8", "0">>,
                <<"-", "e", " ", "-", "n", ":", "8", "0">>, <<"-", "e">>, <<"-", "E", "n">>,
                <<"-", "e", " ", "'", "\\", "x", "4", "1", "'", ".", "b", "\\", "\\", "c", "d">> } }

parseOthers == <<now, db, posture, jobVars, batchVars, envVars, canon, graded, boot, sh>>

InitParse ==
    /\ InitServer
    /\ canon = Null
    /\ graded = Null
    /\ boot = Null
    /\ sh = Null
    /\ line \in { l @@ [ step |-> 0, first |-> <<>>, second |-> <<>>,
                         valid_urls |-> <<>> ] : l \in UrlLines \cup OtherLines }

\* One turn of the loop of run_scans: parsed="$(parse_url "$line")", and the
\* result joins valid_urls unless it is empty
ReadLine ==
    /\ line.step = 0
    /\ LET parsed == parse_url(line.raw)
       IN  line' = [line EXCEPT !.step = 1, !.first = parsed,
                                !.valid_urls = IF parsed # <<>> THEN Append(@, parsed)
                                               ELSE @]
    /\ UNCHANGED parseOthers

\* parse_url is applied to what it wrote
ParseAgain ==
    /\ line.step = 1
    /\ line' = [line EXCEPT !.step = 2, !.second = parse_url(line.first)]
    /\ UNCHANGED parseOthers

NextParse == ReadLine \/ ParseAgain

SpecParse == InitParse /\ [][NextParse]_vars

\* The port a documented line asks for: the digits after the colon, if there
\* are digits and nothing else
AskedPort(l) ==
    IF Len(l.port) >= 2 /\ \A i \in 2..Len(l.port) : l.port[i] \in Range(DigitChars)
    THEN SubSeq(l.port, 2, Len(l.port))
    ELSE <<"4", "4", "3">>

HasDot(h) == \E i \in 1..Len(h) : h[i] = "."

MaxRetries == 4

\* What curl reports as %{http_code}; 000 stands for a request that failed
HttpCodes == {"200", "422", "500", "000"}

\* The input files (-i), each a sequence of lines
InputFiles ==
    { <<U_ab>>,
      <<SchemeHttps \o <<"A", ".", "b", ":", "8", "4", "4", "3", "/", "p">>,
        <<"#", " ", "c">>, U_cd>>,
      <<Localhost, <<>>>> }

\* The values of CONCURRENCY (-c)
Concurrencies == {1, 2}

\* The loop of run_scans over the lines: parse_url, and the result joins
\* valid_urls unless it is empty
RECURSIVE ValidUrls(_)
ValidUrls(lines) ==
    IF lines = <<>> THEN <<>>
    ELSE LET parsed == parse_url(Head(lines))
         IN  (IF parsed # <<>> THEN <<parsed>> ELSE <<>>) \o ValidUrls(Tail(lines))

\* valid_urls for each of the input files
ValidUrlsOf == [f \in InputFiles |-> ValidUrls(f)]

\* A process_parsed_url that xargs has not started yet
NewWorker(parsed) ==
    [ parsed |-> parsed, pc |-> "queued", attempt |-> 0, codes |-> <<>>,
      waits |-> <<>>, files |-> <<>>, counted |-> <<>>, status |-> Null ]

\* Mutant: the loop makes one attempt more
LoopGoesOn_OneMore(attempt, retries) == attempt <= retries + 1

\* for ((attempt=1; attempt<=RETRIES; attempt++))
LoopGoesOn(attempt, retries) == attempt <= retries

\* Mutant: no status is taken for a validation error
IsValidationError_Never(code) == FALSE

\* elif [[ "$http_code" == "422" ]]
IsValidationError(code) == code = "422"

\* sleep $((attempt * 2))
Backoff(attempt) == attempt * 2

\* Mutant: the line does not reach the count file
AppendLine_Lost(n) == n

\* echo "1" >> file: the count file has one line more
AppendLine(n) == n + 1

\* The exit status of xargs: 123 when an invocation exited with a status
\* from 1 to 125
XargsStatus(workers) ==
    IF \A w \in DOMAIN workers : workers[w].status = Some(0) THEN 0 ELSE 123

scanOthers == <<now, db, posture, jobVars, batchVars, envVars, canon, graded, boot, line>>

InitScan ==
    /\ InitServer
    /\ canon = Null
    /\ graded = Null
    /\ boot = Null
    /\ line = Null
    /\ sh \in { [ pc |-> "read", lines |-> f, RETRIES |-> r, CONCURRENCY |-> c,
                  valid_urls |-> <<>>, workers |-> <<>>, temp |-> TRUE,
                  success |-> 0, failed |-> 0, summary |-> Null, status |-> Null ] :
                  f \in InputFiles, r \in 0..MaxRetries, c \in Concurrencies }

\* run_scans up to the pipeline: the urls are read; without a valid url the
\* script exits with status 1
ReadUrls ==
    /\ sh.pc = "read"
    /\ LET valid == ValidUrlsOf[sh.lines]
       IN  IF valid = <<>>
           THEN sh' = [sh EXCEPT !.pc = "exited", !.status = Some(1), !.temp = FALSE]
           ELSE sh' = [sh EXCEPT !.pc = "xargs", !.valid_urls = valid,
                                 !.workers = [w \in 1..Len(valid) |-> NewWorker(valid[w])]]
    /\ UNCHANGED scanOthers

\* The commands process_parsed_url runs as child processes: while it waits
\* for one, the other process_parsed_url of xargs -P run on.  The pc of a
\* worker names the command it waits for, or the head of the loop
Commands_Worker == { "date", "mktemp", "curl", "mv", "basename", "cat", "rm", "sleep" }

\* The process_parsed_url that xargs has started and that have not returned
Running(workers) ==
    { v \in DOMAIN workers : workers[v].pc \in Commands_Worker \cup { "loop" } }

\* xargs -P "$CONCURRENCY" starts process_parsed_url for the next url, which
\* runs up to timestamp="$(date ...)"
StartWorker(w) ==
    /\ sh.pc = "xargs"
    /\ w \in DOMAIN sh.workers
    /\ sh.workers[w].pc = "queued"
    /\ \A v \in 1..(w - 1) : sh.workers[v].pc # "queued"
    /\ Cardinality(Running(sh.workers)) < sh.CONCURRENCY
    /\ sh' = [sh EXCEPT !.workers[w].pc = "date"]
    /\ UNCHANGED scanOthers

\* date has ended: output_file is named and the loop begins with attempt=1
Timestamp(w) ==
    /\ sh.pc = "xargs"
    /\ w \in DOMAIN sh.workers
    /\ sh.workers[w].pc = "date"
    /\ sh' = [sh EXCEPT !.workers[w].pc = "loop", !.workers[w].attempt = 1]
    /\ UNCHANGED scanOthers

\* A turn of the loop of process_parsed_url begins: temp_response="$(mktemp)"
Attempt(w) ==
    /\ sh.pc = "xargs"
    /\ w \in DOMAIN sh.workers
    /\ sh.workers[w].pc = "loop"
    /\ LoopGoesOn(sh.workers[w].attempt, sh.RETRIES)
    /\ sh' = [sh EXCEPT !.workers[w].pc = "mktemp"]
    /\ UNCHANGED scanOthers

\* mktemp has ended: curl sends the request
Curl(w) ==
    /\ sh.pc = "xargs"
    /\ w \in DOMAIN sh.workers
    /\ sh.workers[w].pc = "mktemp"
    /\ sh' = [sh EXCEPT !.workers[w].pc = "curl"]
    /\ UNCHANGED scanOthers

\* curl has ended, within --max-time: http_code is code, and the branch is
\* taken up to its first command, mv, cat or rm
Answer(w, code) ==
    /\ sh.pc = "xargs"
    /\ w \in DOMAIN sh.workers
    /\ sh.workers[w].pc = "curl"
    /\ sh' = [sh EXCEPT !.workers[w].codes = Append(@, code),
                        !.workers[w].pc = IF code = "200" THEN "mv"
                                          ELSE IF IsValidationError(code) THEN "cat"
                                          ELSE "rm"]
    /\ UNCHANGED scanOthers

\* mv has ended: the response is the output file; log_success calls basename
Move(w) ==
    /\ sh.pc = "xargs"
    /\ w \in DOMAIN sh.workers
    /\ sh.workers[w].pc = "mv"
    /\ sh' = [sh EXCEPT !.workers[w].files = Append(@, "result"),
                        !.workers[w].pc = "basename"]
    /\ UNCHANGED scanOthers

\* basename has ended: the line joins success.count, and return 0
Success(w) ==
    /\ sh.pc = "xargs"
    /\ w \in DOMAIN sh.workers
    /\ sh.workers[w].pc = "basename"
    /\ sh' = [sh EXCEPT !.workers[w].counted = Append(@, "success"),
                        !.workers[w].status = Some(0),
                        !.workers[w].pc = "done",
                        !.success = AppendLine(@)]
    /\ UNCHANGED scanOthers

\* cat | grep | cut has ended: error_msg is set, and rm -f follows
ErrorMsg(w) ==
    /\ sh.pc = "xargs"
    /\ w \in DOMAIN sh.workers
    /\ sh.workers[w].pc = "cat"
    /\ sh' = [sh EXCEPT !.workers[w].pc = "rm"]
    /\ UNCHANGED scanOthers

\* rm -f has ended.  After a 422 the validation_error record is written, the
\* line joins failed.count, and return 1; after another code sleep follows
\* when attempts are left, and attempt++ when none is
Remove(w) ==
    /\ sh.pc = "xargs"
    /\ w \in DOMAIN sh.workers
    /\ sh.workers[w].pc = "rm"
    /\ LET me == sh.workers[w]
       IN  IF IsValidationError(me.codes[Len(me.codes)])
           THEN sh' = [sh EXCEPT !.workers[w].files = Append(@, "validation_error"),
                                 !.workers[w].counted = Append(@, "failed"),
                                 !.workers[w].status = Some(1),
                                 !.workers[w].pc = "done",
                                 !.failed = AppendLine(@)]
           ELSE IF me.attempt < sh.RETRIES
           THEN sh' = [sh EXCEPT !.workers[w].waits = Append(@, Backoff(me.attempt)),
                                 !.workers[w].pc = "sleep"]
           ELSE sh' = [sh EXCEPT !.workers[w].attempt = @ + 1,
                                 !.workers[w].pc = "loop"]
    /\ UNCHANGED scanOthers

\* sleep has ended: attempt++
Retry(w) ==
    /\ sh.pc = "xargs"
    /\ w \in DOMAIN sh.workers
    /\ sh.workers[w].pc = "sleep"
    /\ sh' = [sh EXCEPT !.workers[w].attempt = @ + 1, !.workers[w].pc = "loop"]
    /\ UNCHANGED scanOthers

\* The loop of process_parsed_url is over: all attempts failed
Exhausted(w) ==
    /\ sh.pc = "xargs"
    /\ w \in DOMAIN sh.workers
    /\ sh.workers[w].pc = "loop"
    /\ ~LoopGoesOn(sh.workers[w].attempt, sh.RETRIES)
    /\ sh' = [sh EXCEPT !.workers[w] =
                            [@ EXCEPT !.files = Append(@, "scan_failed"),
                                      !.counted = Append(@, "failed"),
                                      !.status = Some(1), !.pc = "done"],
                        !.failed = AppendLine(@)]
    /\ UNCHANGED scanOthers

\* xargs exits once every process_parsed_url has; under set -euo pipefail a
\* failing pipeline ends the script, and the EXIT trap removes TEMP_DIR
XargsExit ==
    /\ sh.pc = "xargs"
    /\ \A w \in DOMAIN sh.workers : sh.workers[w].pc = "done"
    /\ LET status == XargsStatus(sh.workers)
           next   == SetE(status, "summary")
       IN  sh' = [sh EXCEPT !.pc = next,
                            !.status = IF next = "exited" THEN Some(status) ELSE Null,
                            !.temp = (next # "exited")]
    /\ UNCHANGED scanOthers

\* print_summary, and the script ends
PrintSummary ==
    /\ sh.pc = "summary"
    /\ sh' = [sh EXCEPT !.pc = "exited", !.status = Some(0), !.temp = FALSE,
                        !.summary = Some([ total |-> sh.success + sh.failed,
                                           successful |-> sh.success,
                                           failed |-> sh.failed ])]
    /\ UNCHANGED scanOthers

WorkerIds == UNION { DOMAIN f : f \in InputFiles }

NextScan ==
    \/ ReadUrls
    \/ \E w \in WorkerIds : StartWorker(w)
    \/ \E w \in WorkerIds : Timestamp(w)
    \/ \E w \in WorkerIds : Attempt(w)
    \/ \E w \in WorkerIds : Curl(w)
    \/ \E w \in WorkerIds, code \in HttpCodes : Answer(w, code)
    \/ \E w \in WorkerIds : Move(w)
    \/ \E w \in WorkerIds : Success(w)
    \/ \E w \in WorkerIds : ErrorMsg(w)
    \/ \E w \in WorkerIds : Remove(w)
    \/ \E w \in WorkerIds : Retry(w)
    \/ \E w \in WorkerIds : Exhausted(w)
    \/ XargsExit
    \/ PrintSummary

SpecScan == InitScan /\ [][NextScan]_vars

\* Every command that was started ends: curl within --max-time, sleep after
\* its seconds
FairSpecScan == SpecScan /\ WF_vars(NextScan)

(***************************************************************************)
(* Vocabulary of the properties of concurrent-scan.sh                      *)
(***************************************************************************)
Workers == DOMAIN sh.workers
\* The requests the worker has sent: those answered and the one curl waits for
Sent(w) == Len(sh.workers[w].codes) + (IF sh.workers[w].pc = "curl" THEN 1 ELSE 0)
\* The codes of the answers the worker has got
Answers(w) == sh.workers[w].codes
WorkerDone(w) == sh.workers[w].pc = "done"
Started_Worker(w) == w \in Running(sh.workers)
\* The statuses after which the script tries again
Retried(code) == code \notin {"200", "422"}
\* The positions of the answers of worker w that hold code
Where(w, code) == { i \in 1..Len(Answers(w)) : Answers(w)[i] = code }
\* The worker is beyond its requests: it neither is at the head of the loop
\* nor begins a turn nor waits for an answer
NoMoreRequests(w) == sh.workers[w].pc \notin { "loop", "mktemp", "curl" }

\* The safety part of C23
RetryBound ==
    \A w \in Workers :
        /\ Sent(w) <= sh.RETRIES
        /\ Where(w, "200") # {} =>
              /\ Where(w, "200") = {Sent(w)}
              /\ NoMoreRequests(w)
              /\ sh.workers[w].counted \in { <<>>, <<"success">> }
              /\ WorkerDone(w) =>
                    /\ sh.workers[w].files = <<"result">>
                    /\ sh.workers[w].counted = <<"success">>
                    /\ sh.workers[w].status = Some(0)
        /\ (WorkerDone(w) /\ \A i \in 1..Sent(w) : Retried(Answers(w)[i])) =>
              /\ Sent(w) = sh.RETRIES
              /\ sh.workers[w].files = <<"scan_failed">>
              /\ sh.workers[w].counted = <<"failed">>
              /\ sh.workers[w].status = Some(1)

(***************************************************************************)
(* C23  Retry bound: a process_parsed_url sends at most RETRIES requests;  *)
(* a 200 is the answer to its last request, after which it records success *)
(* and returns 0; when all RETRIES attempts ended with a status other than *)
(* 200 and 422 it has written a scan_failed record and recorded failure;   *)
(* and whatever the responses are, a started process_parsed_url comes to   *)
(* its end.                                                                *)
(***************************************************************************)
C23_RetryBound ==
    /\ []RetryBound
    /\ \A w \in WorkerIds :
          /\ (w \in Workers /\ Started_Worker(w)) ~> (w \in Workers /\ WorkerDone(w))
          /\ (w \in Workers /\ Where(w, "200") # {}) ~>
                (w \in Workers /\ sh.workers[w].counted = <<"success">>)

\* With RETRIES at least 2, one url was given up after RETRIES failed
\* attempts and another succeeded at its second attempt
C23_Witness ==
    /\ sh.RETRIES >= 2
    /\ \E w \in Workers :
          /\ WorkerDone(w)
          /\ Sent(w) = sh.RETRIES
          /\ sh.workers[w].files = <<"scan_failed">>
    /\ \E w \in Workers :
          /\ WorkerDone(w)
          /\ Sent(w) = 2
          /\ Answers(w)[2] = "200"

(***************************************************************************)
(* C24  No retry on validation errors: a 422 is the answer to the last     *)
(* request of its process_parsed_url, whatever the number of attempts      *)
(* left; the process writes nothing but a validation_error record to its   *)
(* output file, and when it has ended it has written that record, has      *)
(* counted the url as failed and has returned 1.                           *)
(***************************************************************************)
C24_NoRetryOnValidationError ==
    \A w \in Workers :
        Where(w, "422") # {} =>
            /\ Where(w, "422") = {Sent(w)}
            /\ NoMoreRequests(w)
            /\ sh.workers[w].pc \in { "cat", "rm", "done" }
            /\ IF WorkerDone(w)
               THEN /\ sh.workers[w].files = <<"validation_error">>
                    /\ sh.workers[w].counted = <<"failed">>
                    /\ sh.workers[w].status = Some(1)
               ELSE /\ sh.workers[w].files = <<>>
                    /\ sh.workers[w].counted = <<>>

\* With three attempts or more allowed, a url was answered with 422 at its
\* first attempt, and another at its second
C24_Witness ==
    /\ sh.RETRIES >= 3
    /\ \E w \in Workers : WorkerDone(w) /\ Answers(w) = <<"422">>
    /\ \E w \in Workers : WorkerDone(w) /\ Sent(w) = 2 /\ Answers(w)[2] = "422"

(***************************************************************************)
(* C25  Exponential backoff: the waiting time of a process_parsed_url      *)
(* doubles from each retry to the next, for every value of RETRIES, and no *)
(* wait follows the last attempt.                                          *)
(***************************************************************************)
C25_ExponentialBackoff ==
    \A w \in Workers :
        LET waits == sh.workers[w].waits
        IN  /\ \A i \in 2..Len(waits) : waits[i] = 2 * waits[i - 1]
            /\ sh.RETRIES >= 1 => Len(waits) <= sh.RETRIES - 1
            /\ Len(waits) <= Sent(w)

(***************************************************************************)
(* C26  One outcome per url: a process_parsed_url that has ended, on       *)
(* whatever path, has appended exactly one line to exactly one of          *)
(* success.count and failed.count and has written exactly one output file, *)
(* and one that has not ended has appended and written at most that; the   *)
(* count files hold these lines and no others, so that once all the        *)
(* processes have ended the lines of success.count and failed.count are as *)
(* many as the valid urls.                                                 *)
(***************************************************************************)
C26_OneOutcomePerUrl ==
    /\ \A w \in Workers :
          /\ Len(sh.workers[w].files) <= 1
          /\ Len(sh.workers[w].counted) <= 1
          /\ WorkerDone(w) =>
                /\ Len(sh.workers[w].files) = 1
                /\ Len(sh.workers[w].counted) = 1
    /\ sh.success = Cardinality({ w \in Workers : sh.workers[w].counted = <<"success">> })
    /\ sh.failed = Cardinality({ w \in Workers : sh.workers[w].counted = <<"failed">> })
    /\ (sh.pc # "read" /\ \A w \in Workers : WorkerDone(w)) =>
          sh.success + sh.failed = Len(sh.valid_urls)

\* Both urls of a file were processed, on different paths: one succeeded and
\* one was given up
C26_Witness ==
    /\ sh.pc = "xargs"
    /\ Len(sh.valid_urls) = 2
    /\ \A w \in Workers : WorkerDone(w)
    /\ \E w \in Workers : sh.workers[w].files = <<"result">>
    /\ \E w \in Workers : sh.workers[w].files = <<"scan_failed">>

(***************************************************************************)
(* C27  The summary is always printed: a run whose input file holds at     *)
(* least one valid url does not end without having printed the summary,    *)
(* whatever the mix of successful and failed scans.                        *)
(***************************************************************************)
C27_SummaryAlwaysPrinted ==
    (sh.pc = "exited" /\ Len(sh.valid_urls) >= 1) => sh.summary # Null

\* The summary of the response or entry says what its fullDetails.scan says
Agree(out) ==
    /\ out.grade = out.fullDetails.scan.grade
    /\ out.score = out.fullDetails.scan.score
    /\ out.status_code = out.fullDetails.scan.statusCode
    /\ out.tests_passed = out.fullDetails.scan.testsPassed
    /\ out.tests_failed = out.fullDetails.scan.testsFailed
    /\ out.tests_quantity = out.fullDetails.scan.testsQuantity

(***************************************************************************)
(* C28  Summary and details agree, as claimed: in every successful         *)
(* response and batch entry the top-level grade, score, status_code,       *)
(* tests_passed, tests_failed and tests_quantity equal the corresponding   *)
(* fields of fullDetails.scan, also when the site's responses differ       *)
(* between two retrievals.                                                 *)
(***************************************************************************)
C28_SummaryEqualsDetails ==
    \A j \in Jobs : pc[j] = "done" => Agree(Out(j))

\* C28 as amended: the six top-level fields are those of the job's row, the
\* cached one or the one the job persisted, and fullDetails.scan is the
\* output of the fresh scan; the two agree when the job persisted the row
\* itself and the site served the same at both of the job's retrievals.
C28_SummaryFromRowDetailsFromScan ==
    \A j \in Jobs :
        pc[j] = "done" =>
            /\ Out(j).grade = scanRow[j][1].grade
            /\ Out(j).score = scanRow[j][1].score
            /\ Out(j).status_code = scanRow[j][1].status_code
            /\ Out(j).tests_passed = scanRow[j][1].tests_passed
            /\ Out(j).tests_failed = scanRow[j][1].tests_failed
            /\ Out(j).tests_quantity = scanRow[j][1].tests_quantity
            /\ Out(j).fullDetails.scan = FullScanResult(j).scan
            /\ (persisted[j] # {} /\ probes[j][1].saw = probes[j][2].saw) =>
                  Agree(Out(j))

\* A job that persisted its row and found the site the same at the fresh
\* scan, and a job that found it changed between its two retrievals
C28_Witness ==
    /\ \E j \in Jobs :
          /\ pc[j] = "done" /\ persisted[j] # {}
          /\ probes[j][1].saw = probes[j][2].saw
    /\ \E j \in Jobs :
          /\ pc[j] = "done" /\ persisted[j] # {}
          /\ probes[j][1].saw # probes[j][2].saw
          /\ ~Agree(Out(j))


(***************************************************************************)
(* runWithConcurrency: start order and waiting                             *)
(***************************************************************************)
\* The handler of batch b is inside runWithConcurrency or has returned from
\* it
InRunner(b) == bpc[b] \in {"loop", "race", "resume", "all", "returned"}

\* The runner of batch b is suspended at await Promise.race(executing)
Waiting(b) == bpc[b] = "race"

\* The items started so far are the first idx - 1 items, each started with
\* its own item; the runner waits only with limit promises executing, and
\* never while an item is unstarted and a slot is free
StartedPrefix(b) ==
    InRunner(b) =>
        /\ \A j \in Entries(b) : Started(j) <=> ItemOf(j) < idx[b]
        /\ \A j \in Entries(b) : Started(j) => input[j] = Item(j)
        /\ Waiting(b) => Cardinality(executing[b]) >= DEFAULT_CONCURRENCY
        /\ (idx[b] <= Len(items[b]) /\ Cardinality(executing[b]) < DEFAULT_CONCURRENCY)
               => bpc[b] \in {"loop", "resume"}

\* A step of the runner: an item is started only as item idx, which then
\* moves on by one, and is never started again; once the loop runs with an
\* item unstarted, its step starts that item; the loop runs as the next
\* step of the runner after a promise settled during the wait
StartsInOrder(b) ==
    InRunner(b) =>
        /\ \A j \in Entries(b) :
              /\ (~Started(j) /\ pc'[j] # "idle") =>
                    (ItemOf(j) = idx[b] /\ idx'[b] = idx[b] + 1)
              /\ Started(j) => pc'[j] # "idle"
        /\ idx'[b] \in {idx[b], idx[b] + 1}
        /\ (bpc[b] = "loop" /\ idx[b] <= Len(items[b])) =>
              /\ pc[EntryId(b, idx[b])] = "idle"
              /\ pc'[EntryId(b, idx[b])] # "idle"
              /\ idx'[b] = idx[b] + 1
        /\ (Waiting(b) /\ executing'[b] # executing[b]) => bpc'[b] = "resume"
        /\ bpc[b] = "resume" => bpc'[b] \in {"resume", "loop"}

(***************************************************************************)
(* C29  Start order and no idle slots in runWithConcurrency: items are     *)
(* started in input order, each exactly once; the runner waits before      *)
(* starting the next item only when limit scans are in flight, and as soon *)
(* as one in-flight scan settles the next unstarted item is started, so an *)
(* unstarted item never stays waiting while fewer than limit scans are in  *)
(* flight.                                                                 *)
(***************************************************************************)
C29_StartOrderNoIdleSlots ==
    /\ [](\A b \in BatchIds : StartedPrefix(b))
    /\ [][\A b \in BatchIds : StartsInOrder(b)]_vars

\* The loop runs again after a wait, with a slot free and an item unstarted
C29_Witness ==
    \E b \in BatchIds :
        /\ bpc[b] = "loop"
        /\ idx[b] > DEFAULT_CONCURRENCY + 1
        /\ idx[b] <= Len(items[b])
        /\ Cardinality(executing[b]) < DEFAULT_CONCURRENCY
        /\ \A j \in Entries(b) : Started(j) <=> ItemOf(j) < idx[b]


(***************************************************************************)
(* The batch handlers on their own, and with every started step ending     *)
(***************************************************************************)
\* The server answering POST /scanBatchFullDetails
NextBatch ==
    \/ \E b \in 1..load.batches, body \in load.bodies : BatchRequest(b, body)
    \/ \E b \in 1..load.batches, body \in load.bodies : BatchRejected(b, body)
    \/ RunnerStep

\* Every awaited database call and retrieval ends and every callback that
\* is due runs: a step that can be taken is taken in the end
FairSpecBatch == Init /\ [][NextBatch]_vars /\ WF_vars(RunnerStep)

\* The handler of batch b has returned results, with every item scanned to
\* its end
Returned(b) ==
    /\ bpc[b] = "returned"
    /\ executing[b] = {}
    /\ \A j \in Entries(b) : Finished(j)

(***************************************************************************)
(* C30  Batch termination: if every per-URL scan eventually settles, the   *)
(* /scanBatchFullDetails handler eventually returns its result map, for    *)
(* every batch of 1..10 URLs, every interleaving and every mix of          *)
(* successful and failed entries; the runner never waits on an empty set   *)
(* of in-flight scans.                                                     *)
(***************************************************************************)
C30_BatchTermination ==
    /\ [](\A b \in BatchIds : Waiting(b) => executing[b] # {})
    /\ \A b \in BatchIds : (InRunner(b) ~> Returned(b))

\* A batch of more items than the limit has returned, with entries that
\* succeeded and entries that failed
C30_Witness ==
    \E b \in BatchIds :
        /\ Returned(b)
        /\ Len(items[b]) > DEFAULT_CONCURRENCY
        /\ \E j \in Entries(b) : pc[j] = "done"
        /\ \E j \in Entries(b) : pc[j] = "thrown"

=============================================================================
